---- MODULE Spec2Model ----
(***************************************************************************)
(* Remote-job lifecycle of the Wan2.2 video face swapper: the polling loop *)
(* Wan22Processor.wait_for_task, the retry helper                          *)
(* Wan22Processor.retry_with_backoff and the stage sequence of             *)
(* VideoFaceSwapper.process.                                               *)
(*                                                                         *)
(* Time is a discrete clock (now) that advances only in time.sleep and in  *)
(* a status query's latency.  A key missing from a dict is the value       *)
(* Absent.  Exceptions are records [type, msg], msg being the pieces of    *)
(* the formatted message.                                                  *)
(***************************************************************************)
EXTENDS Integers, Sequences, FiniteSets, TLC

\* ------------------------------------------------------------------ bounds
MaxTimeout == 3        \* timeouts 0..MaxTimeout seconds
MaxInterval == 2       \* polling intervals 1..MaxInterval seconds
MaxLatency == 1        \* a status query takes 0..MaxLatency seconds
MaxRetries == 3        \* max_retries in -1..MaxRetries
MaxBackoff == 2        \* retry_backoff in 1..MaxBackoff
MaxBatch == 2          \* at most MaxBatch requests in a batch
MaxUploads == 2        \* at most MaxUploads calls of upload_file
TicksPerSecond == 2    \* the uploader's clock ticks TicksPerSecond times a second
MaxCreates == 2        \* at most MaxCreates calls of create_task
MaxChunks == 2         \* a response body of 0..MaxChunks chunks
MaxDuration == 3       \* estimate_cost: durations 0..MaxDuration seconds
MaxEstimates == 2      \* at most MaxEstimates calls of estimate_cost

\* --------------------------------------------------------------- constants
PENDING == "PENDING"
RUNNING == "RUNNING"
SUCCEEDED == "SUCCEEDED"
FAILED == "FAILED"
CANCELED == "CANCELED"
UNKNOWN == "UNKNOWN"

\* A status string the service could send that TaskStatus does not list.
OtherStatus == "SUSPENDED"
\* The value standing for a key that a dict does not hold.
Absent == "<absent>"

\* Config defaults.
MAX_RETRIES == 3
RETRY_BACKOFF_FACTOR == 2
POLLING_INTERVAL == 15
MAX_WAIT_TIME == 600
DEFAULT_MODE == "wan-std"
IMAGE_FORMATS == {"jpg", "jpeg", "png", "bmp", "webp"}
IMAGE_MIN_SIZE == 200
IMAGE_MAX_SIZE == 4096
IMAGE_MAX_FILE_SIZE == 5 * 1024 * 1024
VIDEO_FORMATS == {"mp4", "avi", "mov"}
VIDEO_MIN_SIZE == 200
VIDEO_MAX_SIZE == 2048
VIDEO_MIN_DURATION == 2
VIDEO_MAX_DURATION == 30
VIDEO_MAX_FILE_SIZE == 200 * 1024 * 1024
REQUIRED_FACE_COUNT == 1

VARIABLES
    polling_interval,   \* Wan22Processor.polling_interval
    max_wait_time,      \* Wan22Processor.max_wait_time
    max_retries,        \* Wan22Processor.max_retries
    retry_backoff,      \* Wan22Processor.retry_backoff
    entry,              \* the public method the client called
    skip_validation,    \* process(skip_validation=...)
    progress_callback,  \* wait_for_task: whether a callback was passed
    timeout,            \* wait_for_task: timeout after defaulting
    pc,                 \* position of the single thread of control
    now,                \* time.time()
    start_time,         \* wait_for_task: start_time
    poll_count,         \* wait_for_task: poll_count (queries issued)
    task_info,          \* wait_for_task: task_info of the last query
    delivered,          \* what query_task returned last (history)
    sleeps,             \* number of time.sleep calls of wait_for_task (history)
    callbacks,          \* number of progress_callback calls (history)
    query_time,         \* total latency of the status queries (history)
    wait_result,        \* how wait_for_task ended
    calls,              \* per stage: how often process issued it (history)
    result,             \* process: the result dict
    raised,             \* the exception that left the entry method
    attempt,            \* retry_with_backoff: loop index
    last_exception,     \* retry_with_backoff: last_exception
    trace,              \* retry_with_backoff: attempts and sleeps (history)
    retry_result,       \* how retry_with_backoff ended
    log,                \* process: the stage actions issued, with outcome (history)
    batch,              \* process_batch: its arguments, loop index and results
    up,                 \* OSSUploader: its mode and the uploads made
    proc,               \* Wan22Processor: its mode and its create_task calls
    dl,                 \* FileHandler.download_file: the download in progress
    val,                \* the validators: capabilities, last file and verdict
    est,                \* Config.estimate_cost: the calls made (history)
    user_callback,      \* the caller's progress callback and what it did
    fetch               \* process: the arguments of download_result (history)

vars == <<polling_interval, max_wait_time, max_retries, retry_backoff, entry,
          skip_validation, progress_callback, timeout, pc, now, start_time,
          poll_count, task_info, delivered, sleeps, callbacks, query_time,
          wait_result, calls, result, raised, attempt, last_exception, trace,
          retry_result, log, batch, up, proc, dl, val, est,
          user_callback, fetch>>

configVars == <<polling_interval, max_wait_time, max_retries, retry_backoff>>
waitVars == <<timeout, now, start_time, poll_count, task_info, delivered,
              sleeps, callbacks, query_time, wait_result>>
retryVars == <<attempt, last_exception, trace, retry_result>>
\* The state the polling loop and the retry helper never touch.
otherVars == <<log, batch, up>>
\* The processor's construction and create_task, download_file, the validators.
toolVars == <<proc, dl, val>>
\* The cost estimates made, the progress callback, the download requested.
auxVars == <<est, user_callback, fetch>>
\* The state of process, wait_for_task, retry_with_backoff, process_batch and
\* the uploader, which the processor's other methods and the validators
\* leave alone.
flowVars == <<configVars, entry, skip_validation, progress_callback, pc,
             waitVars, calls, result, raised, retryVars, otherVars>>

\* ------------------------------------------------------------------ values
Err(type, msg) == [type |-> type, msg |-> msg]
NoError == Err("None", <<>>)

Info(s, c, m, u, hu, d) ==
    [task_status |-> s, code |-> c, message |-> m, video_url |-> u,
     has_usage |-> hu, video_duration |-> d]
\* No snapshot: the value of task_info before the first query returned.
NoInfo == Info("<none>", Absent, Absent, Absent, FALSE, 0)

StatusValues ==
    {PENDING, RUNNING, SUCCEEDED, FAILED, CANCELED, UNKNOWN, OtherStatus, Absent}

\* usage.video_duration of a finished job, in seconds.
UsageDurations == {3, 10}

\* results.video_url of a finished job.
ResultUrls == {"https://result/video.mp4", "https://result/other.mp4"}

\* The "output" objects a status query can deliver: any status; error code
\* and message on a failed job; result URL and usage on a succeeded one.
QueryResults ==
    {Info(s, Absent, Absent, Absent, FALSE, 0) : s \in StatusValues}
    \cup {Info(FAILED, c, m, Absent, FALSE, 0) :
            c \in {Absent, "E_FACE_NOT_FOUND"}, m \in {Absent, "no face"}}
    \cup {Info(SUCCEEDED, Absent, Absent, u, FALSE, 0) :
            u \in {Absent} \cup ResultUrls}
    \cup {Info(SUCCEEDED, Absent, Absent, u, TRUE, d) :
            u \in {Absent, "https://result/video.mp4"}, d \in UsageDurations}

\* dict.get(key, default)
Get(v, default) == IF v = Absent THEN default ELSE v

Stages == {"validate_image", "validate_video", "upload_image", "upload_video",
           "create_task", "download_result"}

NoWaitResult == [kind |-> "none", value |-> NoInfo, error |-> NoError]
NoRetryResult == [kind |-> "none", error |-> NoError]
\* process_batch not called: no requests, the loop index 0, empty results.
NoBatch == [tasks |-> <<>>, continue_on_error |-> TRUE, i |-> 0, total |-> 0,
            successful |-> 0, failed |-> 0, outcomes |-> <<>>, jobs |-> <<>>]
\* No upload started: the clock in ticks, the calls made, and for the call
\* in progress its arguments, step, requests, POST status and result.
NoUploads == [use_oss |-> FALSE, clock |-> 0, n |-> 0, path |-> <<>>,
              remote_name |-> <<>>, step |-> "none", gets |-> 0, posts |-> 0,
              requests |-> <<>>, status |-> 0, upload_dir |-> Absent,
              key |-> <<>>, keys |-> <<>>, returned |-> <<>>,
              error |-> NoError]
\* started is the start_time of process, processing_time -1 while it is None.
NoResult == [success |-> FALSE, task_id |-> <<>>, output_path |-> Absent,
             has_cost |-> FALSE, video_duration |-> 0, cost |-> 0,
             started |-> 0, processing_time |-> -1]

\* The modes of the service, and the processor a client has constructed.
Modes == {"wan-std", "wan-pro"}
NoProcessor == [state |-> "none", default_mode |-> "wan-std", mode |-> Absent,
                sent |-> <<>>, response |-> <<>>, returned |-> <<>>,
                error |-> NoError]
ReadyProcessor(mode) == [NoProcessor EXCEPT !.state = "ready", !.mode = mode]
\* No download started.
NoDownload == [step |-> "none", total |-> 0, written |-> 0, returned |-> <<>>,
               raised |-> NoError]
\* No progress callback passed: what the callback does when called, whether
\* it was called, and whether an exception it raised was dropped.
NoCallback == [behaviour |-> "none", called |-> FALSE, dropped |-> FALSE]
\* download_result not called: its video_url and save_path arguments.
NoFetch == [video_url |-> Absent, save_path |-> Absent]
\* A file as the validators see it: whether it exists, its extension and
\* size in bytes, whether it can be opened, its width and height, for a video
\* its frame rate and frame count, and what the face detector does on it
\* (<<"ok", number of faces>>, <<"error", 0>>, <<"unreadable", 0>>).
File(exists, extension, file_size, opens, width, height, fps, frame_count, detector) ==
    [exists |-> exists, extension |-> extension, file_size |-> file_size,
     opens |-> opens, width |-> width, height |-> height, fps |-> fps,
     frame_count |-> frame_count, detector |-> detector]
NoFile == File(FALSE, "", 0, FALSE, 0, 0, 0, 0, <<"ok", 0>>)
\* The validator modules are not imported yet.  cascade is how the loading
\* of the face detector ended, fault the exception that a file operation of
\* validate raised, raised the exception that left validate.
NoValidators == [state |-> "none", cv2 |-> TRUE, cascade |-> "none",
                 enable_face_detection |-> FALSE, face_cascade |-> FALSE,
                 kind |-> "none", file |-> NoFile, ok |-> FALSE,
                 reason |-> "", ran |-> <<>>, fault |-> "none",
                 raised |-> NoError]

\* ------------------------------------------------------- wait_for_task
\* Mutant: a snapshot without a status counts as PENDING.
TaskStatusOf_pending(info) == Get(info.task_status, PENDING)

\* task_info.get("task_status", TaskStatus.UNKNOWN)
TaskStatusOf(info) == Get(info.task_status, UNKNOWN)

\* Mutant: the deadline check is one second late.
TimedOut_late(elapsed, t) == elapsed > t + 1
\* Mutant: the deadline check is inclusive.
TimedOut_ge(elapsed, t) == elapsed >= t

\* if elapsed > timeout
TimedOut(elapsed, t) == elapsed > t

\* Mutant: the callback is called only for a job still in progress.
InvokesCallback_inprogress(cb, info) ==
    cb /\ Get(info.task_status, UNKNOWN) \in {PENDING, RUNNING}

\* if progress_callback:
InvokesCallback(cb, info) == cb

\* Mutant: UNKNOWN falls through to the branch that keeps polling.
StatusBranch_unknown(status) ==
    IF status = SUCCEEDED THEN "return"
    ELSE IF status = FAILED THEN "raise_failed"
    ELSE IF status = CANCELED THEN "raise_canceled"
    ELSE IF status \in {PENDING, RUNNING} THEN "sleep"
    ELSE "sleep_unrecognised"
\* Mutant: CANCELED is handled as still running.
StatusBranch_canceled(status) ==
    IF status = SUCCEEDED THEN "return"
    ELSE IF status = FAILED THEN "raise_failed"
    ELSE IF status = UNKNOWN THEN "raise_unknown"
    ELSE IF status \in {PENDING, RUNNING, CANCELED} THEN "sleep"
    ELSE "sleep_unrecognised"

\* The if/elif chain on status.
StatusBranch(status) ==
    IF status = SUCCEEDED THEN "return"
    ELSE IF status = FAILED THEN "raise_failed"
    ELSE IF status = CANCELED THEN "raise_canceled"
    ELSE IF status = UNKNOWN THEN "raise_unknown"
    ELSE IF status \in {PENDING, RUNNING} THEN "sleep"
    ELSE "sleep_unrecognised"

\* Mutant: the job's own code and message are dropped.
TaskFailedError_generic(info) ==
    Err("APIError", <<"Task failed", "UNKNOWN", "Task failed">>)

\* APIError(f"Task failed [{error_code}]: {error_msg}")
TaskFailedError(info) ==
    Err("APIError", <<"Task failed", Get(info.code, "UNKNOWN"),
                      Get(info.message, "Task failed")>>)
TaskCanceledError == Err("APIError", <<"Task was canceled">>)
TaskUnknownError == Err("APIError", <<"Task not found or status unknown">>)
TaskTimeoutError == Err("APIError", <<"Task timeout">>)
QueryError == Err("APIError", <<"Task query failed">>)

\* Mutant: the usage block is stripped from the returned snapshot.
ReturnedSnapshot_nousage(info) ==
    [info EXCEPT !.has_usage = FALSE, !.video_duration = 0]

\* return task_info
ReturnedSnapshot(info) == info

\* process: except APIError as e: raise ProcessingError(f"...: {e}")
ProcessingError(stage, e) == Err("ProcessingError", <<stage>> \o e.msg)

\* process is running, called by the client or by process_batch.
InProcess == entry \in {"process", "process_batch"}

\* wait_for_task returns v to its caller.
WaitReturns(v) ==
    /\ wait_result' = [kind |-> "return", value |-> v, error |-> NoError]
    /\ pc' = IF InProcess THEN "extract"
             ELSE IF entry = "Wan22Processor.process" THEN "workflow_extract"
             ELSE "returned"
    /\ UNCHANGED raised

\* wait_for_task raises e; process wraps it.
WaitRaises(e) ==
    /\ wait_result' = [kind |-> "raise", value |-> NoInfo, error |-> e]
    /\ pc' = "raised"
    /\ raised' = IF InProcess
                 THEN ProcessingError("Task processing failed", e)
                 ELSE e

\* Mutant: a failed status query is retried after a backoff of one second.
Poll_retry ==
    /\ pc = "poll"
    /\ IF TimedOut(now - start_time, timeout)
       THEN /\ WaitRaises(TaskTimeoutError)
            /\ UNCHANGED <<now, poll_count, task_info, delivered, query_time>>
       ELSE /\ poll_count' = poll_count + 1
            /\ \/ /\ now' = now + 1
                  /\ pc' = "poll"
                  /\ UNCHANGED <<task_info, delivered, query_time,
                                 wait_result, raised>>
               \/ \E info \in QueryResults, lat \in 0..MaxLatency :
                    /\ now' = now + lat
                    /\ query_time' = query_time + lat
                    /\ task_info' = info
                    /\ delivered' = info
                    /\ pc' = IF InvokesCallback(progress_callback, info)
                             THEN "callback" ELSE "status"
                    /\ UNCHANGED <<wait_result, raised>>
    /\ UNCHANGED <<configVars, entry, skip_validation, progress_callback,
                   timeout, start_time, sleeps, callbacks, calls, result,
                   retryVars, otherVars, toolVars, auxVars>>

\* Top of the loop: timeout check, then query_task.
Poll ==
    /\ pc = "poll"
    /\ IF TimedOut(now - start_time, timeout)
       THEN /\ WaitRaises(TaskTimeoutError)
            /\ UNCHANGED <<now, poll_count, task_info, delivered, query_time>>
       ELSE /\ poll_count' = poll_count + 1
            /\ \E lat \in 0..MaxLatency :
                 /\ now' = now + lat
                 /\ query_time' = query_time + lat
            /\ \/ /\ WaitRaises(QueryError)
                  /\ UNCHANGED <<task_info, delivered>>
               \/ \E info \in QueryResults :
                    /\ task_info' = info
                    /\ delivered' = info
                    /\ pc' = IF InvokesCallback(progress_callback, info)
                             THEN "callback" ELSE "status"
                    /\ UNCHANGED <<wait_result, raised>>
    /\ UNCHANGED <<configVars, entry, skip_validation, progress_callback,
                   timeout, start_time, sleeps, callbacks, calls, result,
                   retryVars, otherVars, toolVars, auxVars>>

\* What the caller's progress callback does when called: there is none, it
\* returns, or it raises an exception.
CallbackBehaviours == {"none", "returns", "raises"}

\* if progress_callback: try: progress_callback(...) except Exception as e:
\* logger.warning(...) -- in wait_for_task and in log_progress of process.
\* The flags only record that a call was made and that an exception was
\* dropped, so after the first call of a run further calls leave them as
\* they are: the first call of process is the "Step 1/5" message.
log_progress(c) ==
    IF c.behaviour = "none" THEN c
    ELSE [c EXCEPT !.called = TRUE, !.dropped = @ \/ c.behaviour = "raises"]

CallbackError == Err("CallbackError", <<>>)

\* Mutant: the callback is called outside any try, its exception propagates.
CallbackAborts_uncaught(c) == c.behaviour = "raises"

\* except Exception: the callback's exception goes no further.
CallbackAborts(c) == FALSE

\* progress_callback(task_info); whatever it raises is logged and dropped.
\* In process the callback is task_progress_callback, which reports the
\* status through log_progress.
Callback ==
    /\ pc = "callback"
    /\ callbacks' = callbacks + 1
    /\ user_callback' = log_progress(user_callback)
    /\ IF CallbackAborts(user_callback)
       THEN WaitRaises(CallbackError)
       ELSE pc' = "status" /\ UNCHANGED <<wait_result, raised>>
    /\ UNCHANGED <<configVars, entry, skip_validation, progress_callback,
                   timeout, now, start_time, poll_count, task_info, delivered,
                   sleeps, query_time, calls, result, retryVars, otherVars,
                   toolVars, est, fetch>>

\* Mutant: the sleep grows with the number of polls made.
PollSleep_growing(interval, count) == interval * count

\* time.sleep(self.polling_interval)
PollSleep(interval, count) == interval

\* The status check, with the sleep of the branches that keep polling.
CheckStatus ==
    /\ pc = "status"
    /\ LET branch == StatusBranch(TaskStatusOf(task_info)) IN
       CASE branch = "return" ->
              /\ WaitReturns(ReturnedSnapshot(task_info))
              /\ UNCHANGED <<now, sleeps>>
         [] branch = "raise_failed" ->
              /\ WaitRaises(TaskFailedError(task_info))
              /\ UNCHANGED <<now, sleeps>>
         [] branch = "raise_canceled" ->
              /\ WaitRaises(TaskCanceledError)
              /\ UNCHANGED <<now, sleeps>>
         [] branch = "raise_unknown" ->
              /\ WaitRaises(TaskUnknownError)
              /\ UNCHANGED <<now, sleeps>>
         [] OTHER ->
              /\ now' = now + PollSleep(polling_interval, poll_count)
              /\ sleeps' = sleeps + 1
              /\ pc' = "poll"
              /\ UNCHANGED <<wait_result, raised>>
    /\ UNCHANGED <<configVars, entry, skip_validation, progress_callback,
                   timeout, start_time, poll_count, task_info, delivered,
                   callbacks, query_time, calls, result, retryVars, otherVars,
                   toolVars, auxVars>>

\* A client calls processor.wait_for_task(task_id, timeout, progress_callback).
CallWaitForTask ==
    /\ pc = "idle"
    /\ entry' = "wait_for_task"
    /\ \E given \in BOOLEAN, t \in 0..MaxTimeout :
         timeout' = IF given THEN t ELSE max_wait_time
    /\ \E behaviour \in CallbackBehaviours :
         /\ progress_callback' = (behaviour # "none")
         /\ user_callback' = [NoCallback EXCEPT !.behaviour = behaviour]
    /\ start_time' = now
    /\ pc' = "poll"
    /\ UNCHANGED <<configVars, skip_validation, now, poll_count, task_info,
                   delivered, sleeps, callbacks, query_time, wait_result,
                   calls, result, raised, retryVars, otherVars, toolVars, est,
                   fetch>>

\* ------------------------------------------------------------------ Config
\* Config.PRICING, in tenths of RMB per second (0.6 and 0.9 RMB).
PRICING == [m \in Modes |-> IF m = "wan-std" THEN 6 ELSE 9]

\* Mutant: every mode has the price of the standard mode.
get_mode_price_std(mode) == PRICING["wan-std"]

\* cls.PRICING.get(mode, cls.PRICING["wan-std"])
get_mode_price(mode) ==
    IF mode \in DOMAIN PRICING THEN PRICING[mode] ELSE PRICING["wan-std"]

\* Mutant: the price of one second, whatever the duration.
estimate_cost_flat(video_duration, mode) ==
    get_mode_price(IF mode = Absent THEN DEFAULT_MODE ELSE mode)

\* if mode is None: mode = cls.DEFAULT_MODE; video_duration *
\* price_per_second, in tenths of RMB
estimate_cost(video_duration, mode) ==
    video_duration * get_mode_price(IF mode = Absent THEN DEFAULT_MODE ELSE mode)

\* A client calls Config.estimate_cost(video_duration, mode); the mode
\* arguments are none, the two modes of the service, and names that PRICING
\* does not list.
EstimateCost ==
    /\ Len(est) < MaxEstimates
    /\ \E video_duration \in 0..MaxDuration,
          mode \in {Absent, "wan-std", "wan-pro", "wan-max", "standard"} :
         est' = Append(est, [video_duration |-> video_duration, mode |-> mode,
                             cost |-> estimate_cost(video_duration, mode)])
    /\ UNCHANGED <<flowVars, toolVars, user_callback, fetch>>

\* ------------------------------------------------- VideoFaceSwapper.process
\* raise ProcessingError(f"{stage}: {cause}") that leaves process.
ProcessFails(stage, cause) ==
    /\ pc' = "raised"
    /\ raised' = Err("ProcessingError", <<stage, cause>>)

\* Mutant: no catch-all handler, the exception leaves process as it is.
UnexpectedError_raw(cause) == Err(cause, <<>>)

\* except Exception as e: raise ProcessingError(f"Unexpected error: {str(e)}")
UnexpectedError(cause) == Err("ProcessingError", <<"Unexpected error", cause>>)

Count(stage) == [calls EXCEPT ![stage] = @ + 1]
Logged(stage, ok) == Append(log, <<stage, ok>>)

\* Mutant: skip_validation does not skip the image validation.
FirstStage_image(skip) == "validate_image"

\* if not skip_validation: ... else: "Skipping validation"
FirstStage(skip) == IF skip THEN "upload_image" ELSE "validate_image"

\* A client calls swapper.process(image_path, video_path, skip_validation=...).
CallProcess ==
    /\ pc = "idle"
    /\ entry' = "process"
    /\ skip_validation' \in BOOLEAN
    /\ result' = [NoResult EXCEPT !.started = now]
    /\ \E behaviour \in CallbackBehaviours :
         LET passed == [NoCallback EXCEPT !.behaviour = behaviour] IN
         /\ user_callback' = log_progress(passed)
         /\ IF CallbackAborts(passed)
            THEN pc' = "raised" /\ raised' = UnexpectedError("CallbackError")
            ELSE pc' = FirstStage(skip_validation') /\ UNCHANGED raised
    /\ UNCHANGED <<configVars, progress_callback, waitVars, calls, retryVars,
                   otherVars, toolVars, est, fetch>>

\* Step 1: self.image_validator.validate(image_path)
ValidateImage ==
    /\ pc = "validate_image"
    /\ calls' = Count("validate_image")
    /\ \E is_valid \in BOOLEAN :
         /\ log' = Logged("validate_image", is_valid)
         /\ IF is_valid
            THEN pc' = "validate_video" /\ UNCHANGED raised
            ELSE ProcessFails("Image validation failed", "reason")
    /\ UNCHANGED <<configVars, entry, skip_validation, progress_callback,
                   waitVars, result, retryVars, batch, up, toolVars, auxVars>>

\* Mutant: the verdict of the video validator is not looked at.
ValidateVideo_lenient ==
    /\ pc = "validate_video"
    /\ calls' = Count("validate_video")
    /\ \E is_valid \in BOOLEAN :
         /\ log' = Logged("validate_video", is_valid)
         /\ pc' = "upload_image" /\ UNCHANGED raised
    /\ UNCHANGED <<configVars, entry, skip_validation, progress_callback,
                   waitVars, result, retryVars, batch, up, toolVars, auxVars>>

\* Step 1: self.video_validator.validate(video_path)
ValidateVideo ==
    /\ pc = "validate_video"
    /\ calls' = Count("validate_video")
    /\ \E is_valid \in BOOLEAN :
         /\ log' = Logged("validate_video", is_valid)
         /\ IF is_valid
            THEN pc' = "upload_image" /\ UNCHANGED raised
            ELSE ProcessFails("Video validation failed", "reason")
    /\ UNCHANGED <<configVars, entry, skip_validation, progress_callback,
                   waitVars, result, retryVars, batch, up, toolVars, auxVars>>

\* What uploader.upload_file and processor.create_task can do when called.
UploadOutcomes == {"ok", "UploadError"}
CreateOutcomes == {"ok", "APIError"}
\* Step 5: ensure_directory raises, or download_result returns (ok, message).
DownloadOutcomes == {"ok", "failed", "OSError"}

\* Step 2: image_url = self.uploader.upload_file(image_path)
UploadImage ==
    /\ pc = "upload_image"
    /\ calls' = Count("upload_image")
    /\ \E outcome \in UploadOutcomes :
         /\ log' = Logged("upload_image", outcome = "ok")
         /\ IF outcome = "ok"
            THEN pc' = "upload_video" /\ UNCHANGED raised
            ELSE ProcessFails("Upload failed", outcome)
    /\ UNCHANGED <<configVars, entry, skip_validation, progress_callback,
                   waitVars, result, retryVars, batch, up, toolVars, auxVars>>

\* Mutant: a failed upload of the video is ignored.
UploadVideo_lenient ==
    /\ pc = "upload_video"
    /\ calls' = Count("upload_video")
    /\ \E outcome \in UploadOutcomes :
         /\ log' = Logged("upload_video", outcome = "ok")
         /\ pc' = "create_task" /\ UNCHANGED raised
    /\ UNCHANGED <<configVars, entry, skip_validation, progress_callback,
                   waitVars, result, retryVars, batch, up, toolVars, auxVars>>

\* Step 2: video_url = self.uploader.upload_file(video_path)
UploadVideo ==
    /\ pc = "upload_video"
    /\ calls' = Count("upload_video")
    /\ \E outcome \in UploadOutcomes :
         /\ log' = Logged("upload_video", outcome = "ok")
         /\ IF outcome = "ok"
            THEN pc' = "create_task" /\ UNCHANGED raised
            ELSE ProcessFails("Upload failed", outcome)
    /\ UNCHANGED <<configVars, entry, skip_validation, progress_callback,
                   waitVars, result, retryVars, batch, up, toolVars, auxVars>>

\* The id the service gives the job of the n-th request of the client.
TaskId(n) == <<"task", n>>

\* Step 3: task_id = self.processor.create_task(image_url, video_url), and on
\* success the entry into wait_for_task(task_id, task_progress_callback):
\* timeout defaults to max_wait_time, start_time = time.time().
CreateTask ==
    /\ pc = "create_task"
    /\ calls' = Count("create_task")
    /\ \E outcome \in CreateOutcomes :
         /\ log' = Logged("create_task", outcome = "ok")
         /\ IF outcome = "ok"
            THEN /\ result' = [result EXCEPT !.task_id = TaskId(batch.i)]
                 /\ progress_callback' = TRUE
                 /\ timeout' = max_wait_time
                 /\ start_time' = now
                 /\ pc' = "poll"
                 /\ UNCHANGED raised
            ELSE /\ ProcessFails("Task creation failed", outcome)
                 /\ UNCHANGED <<result, progress_callback, timeout, start_time>>
    /\ UNCHANGED <<configVars, entry, skip_validation, now, poll_count,
                   task_info, delivered, sleeps, callbacks, query_time,
                   wait_result, retryVars, batch, up, toolVars, auxVars>>

\* Step 4, after wait_for_task returned: result URL and usage.
ExtractResult ==
    /\ pc = "extract"
    /\ LET info == wait_result.value IN
       IF info.video_url = Absent
       THEN /\ pc' = "raised"
            /\ raised' = Err("ProcessingError", <<"Result video URL not found">>)
            /\ UNCHANGED result
       ELSE /\ pc' = "download"
            /\ result' = IF info.has_usage
                         THEN [result EXCEPT
                                 !.has_cost = TRUE,
                                 !.video_duration = info.video_duration,
                                 !.cost = estimate_cost(info.video_duration,
                                                        proc.mode)]
                         ELSE result
            /\ UNCHANGED raised
    /\ UNCHANGED <<configVars, entry, skip_validation, progress_callback,
                   waitVars, calls, retryVars, otherVars, toolVars, auxVars>>

\* Mutant: the download is requested from a fixed address.
ResultUrl_fixed(info) == "https://result/video.mp4"

\* result_url = task_info["results"]["video_url"]
ResultUrl(info) == info.video_url

\* output_path = os.path.join(output_dir, output_filename)
OutputPath == "output/result.mp4"

\* download_result(video_url, save_path) is called.
Fetched(video_url, save_path) ==
    [video_url |-> video_url, save_path |-> save_path]

\* Mutant: success is reported without the processing time.
Completed_untimed(r, output_path, elapsed) ==
    [r EXCEPT !.output_path = output_path, !.success = TRUE]

\* result["output_path"] = output_path; result["processing_time"] = elapsed;
\* result["success"] = True
Completed(r, output_path, elapsed) ==
    [r EXCEPT !.output_path = output_path, !.processing_time = elapsed,
              !.success = TRUE]

\* Step 5: FileHandler.ensure_directory(output_dir), then
\* self.processor.download_result(result_url, output_path)
Download ==
    /\ pc = "download"
    /\ \E outcome \in DownloadOutcomes :
         CASE outcome = "OSError" ->
                /\ pc' = "raised"
                /\ raised' = UnexpectedError(outcome)
                /\ UNCHANGED <<calls, log, result, fetch>>
           [] outcome = "failed" ->
                /\ calls' = Count("download_result")
                /\ log' = Logged("download_result", FALSE)
                /\ fetch' = Fetched(ResultUrl(wait_result.value), OutputPath)
                /\ ProcessFails("Download failed", "Download failed: message")
                /\ UNCHANGED result
           [] OTHER ->
                /\ calls' = Count("download_result")
                /\ log' = Logged("download_result", TRUE)
                /\ fetch' = Fetched(ResultUrl(wait_result.value), OutputPath)
                /\ result' = Completed(result, OutputPath, now - result.started)
                /\ pc' = "done"
                /\ UNCHANGED raised
    /\ UNCHANGED <<configVars, entry, skip_validation, progress_callback,
                   waitVars, retryVars, batch, up, toolVars, est,
                   user_callback>>

\* --------------------------------------------------- Wan22Processor.process
\* A client calls processor.process(image_url, video_url, output_path,
\* progress_callback=...).
CallWorkflow ==
    /\ pc = "idle"
    /\ entry' = "Wan22Processor.process"
    /\ \E behaviour \in CallbackBehaviours :
         /\ progress_callback' = (behaviour # "none")
         /\ user_callback' = [NoCallback EXCEPT !.behaviour = behaviour]
    /\ pc' = "workflow_create"
    /\ UNCHANGED <<configVars, skip_validation, waitVars, calls, result,
                   raised, retryVars, otherVars, toolVars, est, fetch>>

\* Step 1: task_id = self.create_task(...), and on success the entry into
\* wait_for_task(task_id, progress_callback=progress_callback); an
\* exception is recorded in result["error"] and raised again as it is.
WorkflowCreate ==
    /\ pc = "workflow_create"
    /\ calls' = Count("create_task")
    /\ \E outcome \in CreateOutcomes :
         /\ log' = Logged("create_task", outcome = "ok")
         /\ IF outcome = "ok"
            THEN /\ result' = [result EXCEPT !.task_id = TaskId(batch.i)]
                 /\ timeout' = max_wait_time
                 /\ start_time' = now
                 /\ pc' = "poll"
                 /\ UNCHANGED raised
            ELSE /\ pc' = "raised"
                 /\ raised' = Err(outcome, <<>>)
                 /\ UNCHANGED <<result, timeout, start_time>>
    /\ UNCHANGED <<configVars, entry, skip_validation, progress_callback, now,
                   poll_count, task_info, delivered, sleeps, callbacks,
                   query_time, wait_result, retryVars, batch, up, toolVars,
                   auxVars>>

\* Step 2, after wait_for_task returned: the result URL, or
\* APIError("Result video URL not found in response").
WorkflowExtract ==
    /\ pc = "workflow_extract"
    /\ IF wait_result.value.video_url = Absent
       THEN /\ pc' = "raised"
            /\ raised' = Err("APIError",
                             <<"Result video URL not found in response">>)
       ELSE /\ pc' = "workflow_download"
            /\ UNCHANGED raised
    /\ UNCHANGED <<configVars, entry, skip_validation, progress_callback,
                   waitVars, calls, result, retryVars, otherVars, toolVars,
                   auxVars>>

\* Step 3: self.download_result(result_video_url, output_path), then the
\* metrics and the cost of the usage reported.
WorkflowDownload ==
    /\ pc = "workflow_download"
    /\ calls' = Count("download_result")
    /\ fetch' = Fetched(ResultUrl(wait_result.value), OutputPath)
    /\ \E success \in BOOLEAN :
         /\ log' = Logged("download_result", success)
         /\ IF success
            THEN LET info == wait_result.value
                     saved == [result EXCEPT !.output_path = OutputPath,
                                             !.success = TRUE]
                 IN /\ result' = IF info.has_usage
                                 THEN [saved EXCEPT
                                         !.has_cost = TRUE,
                                         !.video_duration = info.video_duration,
                                         !.cost = estimate_cost(
                                                    info.video_duration,
                                                    proc.mode)]
                                 ELSE saved
                    /\ pc' = "done"
                    /\ UNCHANGED raised
            ELSE /\ pc' = "raised"
                 /\ raised' = Err("APIError",
                                  <<"Download failed", "Download failed: message">>)
                 /\ UNCHANGED result
    /\ UNCHANGED <<configVars, entry, skip_validation, progress_callback,
                   waitVars, retryVars, batch, up, toolVars, est,
                   user_callback>>

\* ------------------------------------------- VideoFaceSwapper.process_batch
\* A request of a batch: a dictionary with both paths, or with one missing.
RequestKinds == {"request", "incomplete"}
RECURSIVE SeqsUpTo(_, _)
SeqsUpTo(S, n) ==
    IF n = 0 THEN {<<>>}
    ELSE LET shorter == SeqsUpTo(S, n - 1) IN
         shorter \cup {Append(q, x) : q \in {r \in shorter : Len(r) = n - 1},
                                      x \in S}

\* An entry of results["tasks"]; error is NoError and task_id the job id on
\* success, task_id is missing (<<>>) in the entries of failed requests.
Outcome(number, success, error, task_id) ==
    [task_number |-> number, success |-> success, error |-> error,
     task_id |-> task_id]

\* results["successful"] += 1; results["tasks"].append(...)
RecordSuccess(b, outcome) ==
    [b EXCEPT !.successful = @ + 1, !.outcomes = Append(@, outcome)]

\* Mutant: the failed request is recorded but not counted.
RecordFailure_uncounted(b, outcome) ==
    [b EXCEPT !.outcomes = Append(@, outcome)]

\* results["failed"] += 1; results["tasks"].append(...)
RecordFailure(b, outcome) ==
    [b EXCEPT !.failed = @ + 1, !.outcomes = Append(@, outcome)]

\* The status of the job on the service when process ends, as last reported
\* by a status query ("<none>": no query answered).
LastReported == IF delivered = NoInfo THEN "<none>" ELSE TaskStatusOf(delivered)

\* A client calls swapper.process_batch(tasks, continue_on_error=...).
CallProcessBatch ==
    /\ pc = "idle"
    /\ entry' = "process_batch"
    /\ \E tasks \in SeqsUpTo(RequestKinds, MaxBatch), coe \in BOOLEAN :
         batch' = [NoBatch EXCEPT !.tasks = tasks, !.continue_on_error = coe,
                                  !.i = 1, !.total = Len(tasks)]
    /\ \E behaviour \in {"none", "raises"} :
         user_callback' = [NoCallback EXCEPT !.behaviour = behaviour]
    /\ pc' = "batch_next"
    /\ UNCHANGED <<configVars, skip_validation, progress_callback, waitVars,
                   calls, result, raised, retryVars, log, up, toolVars, est,
                   fetch>>

\* The head of an iteration: the loop ends, or the request lacks a path and
\* is recorded as failed, or process is called with the two paths (the
\* locals of process and wait_for_task start afresh).
BatchNext ==
    /\ pc = "batch_next"
    /\ IF batch.i > Len(batch.tasks)
       THEN /\ pc' = "batch_returned"
            /\ UNCHANGED <<batch, skip_validation, poll_count, task_info,
                           delivered, sleeps, callbacks, query_time,
                           wait_result, calls, result, raised, log,
                           fetch, user_callback>>
       ELSE IF batch.tasks[batch.i] = "incomplete"
       THEN /\ batch' = [RecordFailure(batch,
                           Outcome(batch.i, FALSE,
                                   Err("None", <<"Missing image_path or video_path">>),
                                   <<>>))
                         EXCEPT !.i = @ + 1]
            /\ pc' = "batch_next"
            /\ UNCHANGED <<skip_validation, poll_count, task_info, delivered,
                           sleeps, callbacks, query_time, wait_result, calls,
                           result, raised, log, fetch, user_callback>>
       ELSE /\ skip_validation' = FALSE
            /\ pc' = FirstStage(skip_validation')
            /\ poll_count' = 0
            /\ task_info' = NoInfo
            /\ delivered' = NoInfo
            /\ sleeps' = 0
            /\ callbacks' = 0
            /\ query_time' = 0
            /\ wait_result' = NoWaitResult
            /\ calls' = [s \in Stages |-> 0]
            /\ result' = [NoResult EXCEPT !.started = now]
            /\ raised' = NoError
            /\ log' = <<>>
            /\ fetch' = NoFetch
            /\ user_callback' = log_progress(user_callback)
            /\ UNCHANGED batch
    /\ UNCHANGED <<configVars, entry, progress_callback, timeout, now,
                   start_time, retryVars, up, toolVars, est>>

\* process returned or raised: the outcome is counted and appended, and a
\* failure ends the loop when continue_on_error is off.
BatchRecord ==
    /\ entry = "process_batch"
    /\ pc \in {"done", "raised"}
    /\ LET jobs == IF result.task_id = <<>> THEN batch.jobs
                   ELSE Append(batch.jobs, LastReported) IN
       IF pc = "done"
       THEN /\ batch' = [RecordSuccess(batch,
                           Outcome(batch.i, TRUE, NoError, result.task_id))
                         EXCEPT !.i = @ + 1, !.jobs = jobs]
            /\ pc' = "batch_next"
       ELSE /\ batch' = [RecordFailure(batch,
                           Outcome(batch.i, FALSE, raised, <<>>))
                         EXCEPT !.i = IF batch.continue_on_error
                                      THEN @ + 1 ELSE @,
                                !.jobs = jobs]
            /\ pc' = IF batch.continue_on_error
                     THEN "batch_next" ELSE "batch_returned"
    /\ UNCHANGED <<configVars, entry, skip_validation, progress_callback,
                   waitVars, calls, result, raised, retryVars, log, up,
                   toolVars, auxVars>>

\* -------------------------------------------------------------- OSSUploader
\* Local files as <<directory, name>>; two of them share their name.
Files == {<<"in", "face.jpg">>, <<"tmp", "face.jpg">>, <<"in", "dance.mp4">>}
\* Path(local_path).name
Basename(path) == path[2]

\* datetime.now().strftime("%Y%m%d_%H%M%S"): the clock cut to whole seconds.
Timestamp(clock) == clock \div TicksPerSecond

\* remote_name = f"wan22/{timestamp}_{filename}"
RemoteKey(clock, path) == <<"wan22", Timestamp(clock), Basename(path)>>

\* file_key = f"{upload_dir}/{filename}"; oss_url = f"oss://{file_key}"
OssUrl(upload_dir, path) == <<"oss://", upload_dir, Basename(path)>>

UploadError(text) == Err("UploadError", <<text>>)

\* Mutant: any 2xx answer to the POST counts as a success.
PostAccepted_2xx(status) == status \in {200, 204}

\* if upload_response.status_code != 200: raise UploadError(...)
PostAccepted(status) == status = 200

\* The answers of the policy request and of the POST to the upload host.
PolicyOutcomes == {"data", "output.data", "invalid", "missing_key", "http_error"}
PostStatuses == {200, 204, 403}

NoCall == [NoUploads EXCEPT !.use_oss = up.use_oss, !.clock = up.clock,
                            !.n = up.n, !.keys = up.keys]

\* A client calls uploader.upload_file(local_path, remote_name); a missing
\* file ends the call at once.
CallUploadFile ==
    /\ up.step \in {"none", "returned", "raised"}
    /\ up.n < MaxUploads
    /\ \E path \in Files, exists \in BOOLEAN, named \in BOOLEAN,
          ticks \in 0..TicksPerSecond :
         up' = [NoCall EXCEPT
                  !.n = @ + 1,
                  !.clock = @ + ticks,
                  !.path = path,
                  !.remote_name = IF named THEN <<"custom">> ELSE <<>>,
                  !.step = IF ~exists THEN "raised"
                           ELSE IF up.use_oss THEN "put" ELSE "policy",
                  !.error = IF exists THEN NoError
                            ELSE UploadError("File not found")]
    /\ UNCHANGED <<configVars, entry, skip_validation, progress_callback, pc,
                   waitVars, calls, result, raised, retryVars, log, batch,
                   toolVars, auxVars>>

\* _upload_to_oss: the key, put_object_from_file, the public URL.
UploadToOss ==
    /\ up.step = "put"
    /\ LET generated == up.remote_name = <<>>
           key == IF generated THEN RemoteKey(up.clock, up.path)
                  ELSE up.remote_name IN
       \E stored \in BOOLEAN :
         up' = IF stored
               THEN [up EXCEPT !.step = "returned",
                               !.key = key,
                               !.keys = IF generated THEN Append(@, key) ELSE @,
                               !.returned = <<"https://">> \o key]
               ELSE [up EXCEPT !.step = "raised",
                               !.key = key,
                               !.error = UploadError("OSS upload failed")]
    /\ UNCHANGED <<configVars, entry, skip_validation, progress_callback, pc,
                   waitVars, calls, result, raised, retryVars, log, batch,
                   toolVars, auxVars>>

\* _upload_to_dashscope step 1: GET the upload policy and read its fields.
GetPolicy ==
    /\ up.step = "policy"
    /\ \E outcome \in PolicyOutcomes :
         up' = [up EXCEPT
                  !.gets = @ + 1,
                  !.requests = Append(@, "GET"),
                  !.step = IF outcome \in {"data", "output.data"}
                           THEN "post" ELSE "raised",
                  !.upload_dir = IF outcome \in {"data", "output.data"}
                                 THEN "dir" ELSE @,
                  !.error =
                     CASE outcome = "invalid" ->
                            UploadError("Upload error: Invalid policy response")
                       [] outcome = "missing_key" -> UploadError("Upload error")
                       [] outcome = "http_error" ->
                            UploadError("DashScope upload failed")
                       [] OTHER -> NoError]
    /\ UNCHANGED <<configVars, entry, skip_validation, progress_callback, pc,
                   waitVars, calls, result, raised, retryVars, log, batch,
                   toolVars, auxVars>>

\* Step 2: open the file and POST it to upload_host; the status is checked.
PostFile ==
    /\ up.step = "post"
    /\ \/ up' = [up EXCEPT !.step = "raised",
                           !.error = UploadError("Upload error")]
       \/ up' = [up EXCEPT !.posts = @ + 1,
                           !.requests = Append(@, "POST"),
                           !.step = "raised",
                           !.error = UploadError("DashScope upload failed")]
       \/ \E status \in PostStatuses :
            up' = [up EXCEPT !.posts = @ + 1,
                             !.requests = Append(@, "POST"),
                             !.status = status,
                             !.step = IF PostAccepted(status)
                                      THEN "synthesise" ELSE "raised",
                             !.error = IF PostAccepted(status) THEN NoError
                                       ELSE UploadError("OSS upload failed")]
    /\ UNCHANGED <<configVars, entry, skip_validation, progress_callback, pc,
                   waitVars, calls, result, raised, retryVars, log, batch,
                   toolVars, auxVars>>

\* Step 3: the oss:// reference is built from the key and returned.
Synthesise ==
    /\ up.step = "synthesise"
    /\ up' = [up EXCEPT !.step = "returned",
                        !.returned = OssUrl(up.upload_dir, up.path)]
    /\ UNCHANGED <<configVars, entry, skip_validation, progress_callback, pc,
                   waitVars, calls, result, raised, retryVars, log, batch,
                   toolVars, auxVars>>

\* ------------------------------------- Wan22Processor.__init__, create_task
\* The mode argument (None, empty, valid, invalid) and Config.DEFAULT_MODE.
ModeArgs == {Absent, "", "wan-std", "wan-pro", "wan-max"}
DefaultModes == {"wan-std", "wan-pro", "standard"}

\* mode or Config.DEFAULT_MODE
ModeOrDefault(mode, default) == IF mode \in {Absent, ""} THEN default ELSE mode

\* Mutant: any non-empty mode is let through.
ModeValid_nonempty(mode) == mode # ""

\* self.mode in ["wan-std", "wan-pro"]
ModeValid(mode) == mode \in {"wan-std", "wan-pro"}

\* Wan22Processor(api_key, mode), directly or through VideoFaceSwapper(mode,
\* api_key), which re-raises the ValueError as ProcessingError.
ConstructProcessor ==
    /\ proc.state = "none"
    /\ \E arg \in ModeArgs, default \in DefaultModes, has_key \in BOOLEAN,
          swapper \in BOOLEAN :
         LET mode == ModeOrDefault(ModeOrDefault(arg, default), default)
             error == IF ~has_key THEN Err("ValueError", <<"API Key is required">>)
                      ELSE IF ~ModeValid(mode)
                      THEN Err("ValueError", <<"Invalid mode", mode>>)
                      ELSE NoError
         IN  proc' = [proc EXCEPT
                        !.default_mode = default,
                        !.mode = mode,
                        !.state = IF error = NoError THEN "ready" ELSE "raised",
                        !.error = IF error # NoError /\ swapper
                                  THEN ProcessingError("Failed to initialize", error)
                                  ELSE error]
    /\ UNCHANGED <<flowVars, dl, val, auxVars>>

\* What the service can answer to the create request: no answer, an HTTP
\* error status, a body that is no JSON, JSON that is no object, or an object
\* with or without "code", "output" and "output.task_id".
CreateResponses ==
    {[kind |-> k, code |-> Absent, output |-> "absent", task_id |-> <<>>] :
       k \in {"transport_error", "http_error", "malformed", "not_object"}}
    \cup {[kind |-> "json", code |-> c, output |-> o,
           task_id |-> IF o = "task" THEN TaskId(1) ELSE <<>>] :
            c \in {Absent, "InvalidParameter"},
            o \in {"absent", "no_task_id", "task"}}

CreateReturns(task_id) == [returned |-> task_id, error |-> NoError]
CreateRaises(text) == [returned |-> <<>>, error |-> Err("APIError", text)]

\* Mutant: the error code counts only when there is no output, as in
\* query_task.
HasErrorCode_nooutput(response) ==
    response.code # Absent /\ response.output = "absent"

\* if "code" in result
HasErrorCode(response) == response.code # Absent

\* The ways create_task can end on a response (a body that is no JSON raises
\* a RequestException or a ValueError, depending on the requests version).
CreateTaskResults(response) ==
    CASE response.kind \in {"transport_error", "http_error"} ->
           {CreateRaises(<<"Task creation failed">>)}
      [] response.kind = "malformed" ->
           {CreateRaises(<<"Task creation failed">>),
            CreateRaises(<<"Unexpected error">>)}
      [] response.kind = "not_object" ->
           {CreateRaises(<<"Unexpected error">>)}
      [] OTHER ->
           IF HasErrorCode(response)
           THEN {CreateRaises(<<"API Error", response.code>>)}
           ELSE IF response.output = "task"
           THEN {CreateReturns(response.task_id)}
           ELSE {CreateRaises(<<"Unexpected response format">>)}

\* processor.create_task(image_url, video_url): the POST with the payload
\* (its mode is recorded) and the handling of the response.
CreateTaskCall ==
    /\ proc.state = "ready"
    /\ Len(proc.sent) < MaxCreates
    /\ \E response \in CreateResponses :
         \E end \in CreateTaskResults(response) :
           proc' = [proc EXCEPT !.sent = Append(@, proc.mode),
                                !.response = response,
                                !.returned = end.returned,
                                !.error = end.error]
    /\ UNCHANGED <<flowVars, dl, val, auxVars>>

\* ------------------------------- download_result, FileHandler.download_file
\* Mutant: an exception that is no RequestException leaves download_file.
DownloadEnds_unhandled(d, outcome) ==
    CASE outcome = "ok" ->
           [d EXCEPT !.step = "returned",
                     !.returned = <<TRUE, "Downloaded successfully">>]
      [] outcome = "RequestException" ->
           [d EXCEPT !.step = "returned",
                     !.returned = <<FALSE, "Download failed">>]
      [] OTHER ->
           [d EXCEPT !.step = "raised", !.raised = Err("OSError", <<>>)]

\* return True, ... / except RequestException / except Exception
DownloadEnds(d, outcome) ==
    CASE outcome = "ok" ->
           [d EXCEPT !.step = "returned",
                     !.returned = <<TRUE, "Downloaded successfully">>]
      [] outcome = "RequestException" ->
           [d EXCEPT !.step = "returned",
                     !.returned = <<FALSE, "Download failed">>]
      [] OTHER ->
           [d EXCEPT !.step = "returned",
                     !.returned = <<FALSE, "Unexpected error during download">>]

\* processor.download_result(video_url, save_path); the body of the response
\* has total non-empty chunks.
CallDownloadResult ==
    /\ proc.state = "ready"
    /\ dl.step \in {"none", "returned"}
    /\ \E total \in 0..MaxChunks :
         dl' = [NoDownload EXCEPT !.step = "mkdir", !.total = total]
    /\ UNCHANGED <<flowVars, proc, val, auxVars>>

\* FileHandler.ensure_directory(Path(save_path).parent)
EnsureDirectory ==
    /\ dl.step = "mkdir"
    /\ \/ dl' = [dl EXCEPT !.step = "get"]
       \/ dl' = DownloadEnds(dl, "OSError")
    /\ UNCHANGED <<flowVars, proc, val, auxVars>>

\* requests.get(url, stream=True); response.raise_for_status()
GetResponse ==
    /\ dl.step = "get"
    /\ \/ dl' = [dl EXCEPT !.step = "open"]
       \/ dl' = DownloadEnds(dl, "RequestException")
    /\ UNCHANGED <<flowVars, proc, val, auxVars>>

\* open(save_path, 'wb')
OpenFile ==
    /\ dl.step = "open"
    /\ \/ dl' = [dl EXCEPT !.step = "write"]
       \/ dl' = DownloadEnds(dl, "OSError")
    /\ UNCHANGED <<flowVars, proc, val, auxVars>>

\* One round of the loop over response.iter_content: the body is exhausted
\* and the call returns, or the next chunk arrives and is written, or the
\* connection breaks, or the write fails.
WriteChunk ==
    /\ dl.step = "write"
    /\ IF dl.written = dl.total
       THEN dl' = DownloadEnds(dl, "ok")
       ELSE \/ dl' = [dl EXCEPT !.written = @ + 1]
            \/ dl' = DownloadEnds(dl, "RequestException")
            \/ dl' = DownloadEnds(dl, "OSError")
    /\ UNCHANGED <<flowVars, proc, val, auxVars>>

\* ----------------------------------------- ImageValidator, VideoValidator
\* Path(file_path).suffix.lstrip('.').lower()
get_file_extension(extension) ==
    CASE extension = "PNG" -> "png"
      [] extension = "MOV" -> "mov"
      [] OTHER -> extension

\* width < self.min_size or height < self.min_size
TooSmall(width, height, min_size) == width < min_size \/ height < min_size

\* Mutant: only an image too large in both directions is rejected.
TooLarge_both(width, height, max_size) == width > max_size /\ height > max_size

\* width > self.max_size or height > self.max_size
TooLarge(width, height, max_size) == width > max_size \/ height > max_size

\* Mutant: the boundary ratios 1:3 and 3:1 are rejected.
AspectOutside_strict(width, height) == 3 * width <= height \/ width >= 3 * height

\* aspect_ratio = width / height; aspect_ratio < 1/3 or aspect_ratio > 3/1.
\* The float quotient compares with the float 1/3 and with 3.0 as the exact
\* ratio does, for all dimensions up to the maximum size.
AspectOutside(width, height) == 3 * width < height \/ width > 3 * height

\* duration = frame_count / fps; duration < self.min_duration.  The float
\* quotient is below (above) an integer bound exactly when the ratio is.
TooShort(frame_count, fps, min_duration) == frame_count < min_duration * fps

\* Mutant: a video of exactly the maximum duration is too long.
TooLong_ge(frame_count, fps, max_duration) == frame_count >= max_duration * fps

\* duration > self.max_duration
TooLong(frame_count, fps, max_duration) == frame_count > max_duration * fps

\* Mutant: more faces than required are let through.
TooManyFaces_never(face_count, required) == FALSE

\* face_count > self.required_face_count
TooManyFaces(face_count, required) == face_count > required

\* _check_faces, _check_first_frame_face: "" when the check passes.
FaceReason(v, f) ==
    IF ~v.face_cascade THEN ""
    ELSE CASE f.detector[1] = "unreadable" -> "Failed to read for face detection"
           [] f.detector[1] = "error" -> ""
           [] OTHER ->
                IF f.detector[2] = 0 THEN "No face detected"
                ELSE IF TooManyFaces(f.detector[2], REQUIRED_FACE_COUNT)
                THEN "Multiple faces detected"
                ELSE ""

\* One check of ImageValidator.validate: its reason when it fails, else "".
ImageCheck(check, v, f) ==
    CASE check = "exists" -> IF f.exists THEN "" ELSE "File not found"
      [] check = "format" ->
           IF get_file_extension(f.extension) \in IMAGE_FORMATS THEN ""
           ELSE "Invalid image format"
      [] check = "size" ->
           IF f.file_size > IMAGE_MAX_FILE_SIZE THEN "Image file too large"
           ELSE ""
      [] check = "load" -> IF f.opens THEN "" ELSE "Failed to load image"
      [] check = "dimensions" ->
           IF TooSmall(f.width, f.height, IMAGE_MIN_SIZE) THEN "Image too small"
           ELSE IF TooLarge(f.width, f.height, IMAGE_MAX_SIZE)
           THEN "Image too large"
           ELSE ""
      [] check = "aspect" ->
           IF AspectOutside(f.width, f.height) THEN "Invalid aspect ratio"
           ELSE ""
      [] OTHER -> FaceReason(v, f)

\* One check of VideoValidator.validate: its reason when it fails, else "".
VideoCheck(check, v, f) ==
    CASE check = "exists" -> IF f.exists THEN "" ELSE "File not found"
      [] check = "format" ->
           IF get_file_extension(f.extension) \in VIDEO_FORMATS THEN ""
           ELSE "Invalid video format"
      [] check = "size" ->
           IF f.file_size > VIDEO_MAX_FILE_SIZE THEN "Video file too large"
           ELSE ""
      [] check = "load" ->
           IF ~f.opens THEN "Failed to open video file"
           ELSE IF f.fps > 0 THEN "" ELSE "Could not determine video FPS"
      [] check = "dimensions" ->
           IF TooSmall(f.width, f.height, VIDEO_MIN_SIZE)
           THEN "Video resolution too small"
           ELSE IF TooLarge(f.width, f.height, VIDEO_MAX_SIZE)
           THEN "Video resolution too large"
           ELSE ""
      [] check = "aspect" ->
           IF AspectOutside(f.width, f.height) THEN "Invalid aspect ratio"
           ELSE ""
      [] check = "duration" ->
           IF TooShort(f.frame_count, f.fps, VIDEO_MIN_DURATION)
           THEN "Video too short"
           ELSE IF TooLong(f.frame_count, f.fps, VIDEO_MAX_DURATION)
           THEN "Video too long"
           ELSE ""
      [] OTHER -> FaceReason(v, f)

\* Mutant: the aspect ratio is checked before the dimensions.
ImageCheckOrder_aspect_first ==
    <<"exists", "format", "size", "load", "aspect", "dimensions", "faces">>

\* The checks of the two validate methods in the order of the code; "load"
\* opens the file and reads its properties.
ImageCheckOrder ==
    <<"exists", "format", "size", "load", "dimensions", "aspect", "faces">>
VideoCheckOrder ==
    <<"exists", "format", "size", "load", "dimensions", "aspect", "duration",
      "faces">>

\* if self.enable_face_detection: the face check is part of validate.
ImageChecks(v) ==
    SelectSeq(ImageCheckOrder,
              LAMBDA check : check # "faces" \/ v.enable_face_detection)
\* if not CV2_AVAILABLE: return True, None after the size check.
VideoChecks(v) ==
    SelectSeq(VideoCheckOrder,
              LAMBDA check : IF v.cv2
                             THEN check # "faces" \/ v.enable_face_detection
                             ELSE check \in {"exists", "format", "size"})

\* validate: the checks one after the other, returning at the first that
\* fails; ran lists the checks made.
RECURSIVE RunImageChecks(_, _, _, _)
RunImageChecks(checks, v, f, ran) ==
    IF checks = <<>> THEN [ok |-> TRUE, reason |-> "", ran |-> ran]
    ELSE LET reason == ImageCheck(Head(checks), v, f) IN
         IF reason # ""
         THEN [ok |-> FALSE, reason |-> reason, ran |-> Append(ran, Head(checks))]
         ELSE RunImageChecks(Tail(checks), v, f, Append(ran, Head(checks)))

RECURSIVE RunVideoChecks(_, _, _, _)
RunVideoChecks(checks, v, f, ran) ==
    IF checks = <<>> THEN [ok |-> TRUE, reason |-> "", ran |-> ran]
    ELSE LET reason == VideoCheck(Head(checks), v, f) IN
         IF reason # ""
         THEN [ok |-> FALSE, reason |-> reason, ran |-> Append(ran, Head(checks))]
         ELSE RunVideoChecks(Tail(checks), v, f, Append(ran, Head(checks)))

\* The files given to the validators.
Detections == {<<"ok", 0>>, <<"ok", 1>>, <<"ok", 2>>, <<"error", 0>>,
               <<"unreadable", 0>>}
ImageDimensions == {199, 200, 600, 601, 1365, 4095, 4096, 4097}
VideoDimensions == {199, 200, 600, 601, 682, 2046, 2048, 2049}
ImageFiles ==
    {File(e, x, z, o, w, h, 0, 0, d) :
       e \in BOOLEAN, x \in {"jpg", "PNG", "gif"},
       z \in {IMAGE_MAX_FILE_SIZE, IMAGE_MAX_FILE_SIZE + 1}, o \in BOOLEAN,
       w \in ImageDimensions, h \in ImageDimensions, d \in Detections}
VideoFiles ==
    {File(e, x, z, o, w, h, r, n, d) :
       e \in BOOLEAN, x \in {"mp4", "MOV", "mkv"},
       z \in {VIDEO_MAX_FILE_SIZE, VIDEO_MAX_FILE_SIZE + 1}, o \in BOOLEAN,
       w \in VideoDimensions, h \in VideoDimensions, r \in {0, 25},
       n \in {49, 50, 750, 751}, d \in Detections}

\* Loading the Haar cascade ends with a classifier that holds the cascade
\* ("loaded"), an exception (cv2.data missing), or an empty classifier (the
\* file is unreadable).
\* _load_face_detector keeps the detector and leaves face detection on.
DetectorKept(cv2, cascade) == cv2 /\ cascade # "exception"

\* The validators package is imported and the two validators are
\* constructed.  Without OpenCV the annotation cv2.VideoCapture of
\* _check_first_frame_face is evaluated when the class body runs, unless the
\* interpreter defers annotations (Python 3.14): the import raises NameError.
\* _load_face_detector switches face detection off when OpenCV is missing or
\* loading the cascade raises.  cv2.CascadeClassifier(path) does not raise
\* when the cascade file cannot be read: it returns an empty classifier,
\* which is kept as the detector.
LoadValidators ==
    /\ val.state = "none"
    /\ \E cv2 \in BOOLEAN, enabled \in BOOLEAN,
          cascade \in {"loaded", "exception", "empty"},
          deferred \in BOOLEAN :
         val' = [val EXCEPT
                   !.cv2 = cv2,
                   !.state = IF cv2 \/ deferred THEN "ready" ELSE "NameError",
                   !.cascade = IF enabled /\ cv2 THEN cascade ELSE "none",
                   !.enable_face_detection =
                       enabled /\ DetectorKept(cv2, cascade),
                   !.face_cascade = enabled /\ DetectorKept(cv2, cascade)]
    /\ UNCHANGED <<flowVars, proc, dl, auxVars>>

\* validate returned r for the file f.
Validated(v, kind, f, r) ==
    [v EXCEPT !.kind = kind, !.file = f, !.ok = r.ok, !.reason = r.reason,
              !.ran = r.ran, !.fault = r.fault, !.raised = r.raised]

\* The checks ended by themselves.
Verdict(r) ==
    [ok |-> r.ok, reason |-> r.reason, ran |-> r.ran, fault |-> "none",
     raised |-> NoError]

\* Mutant: no catch-all handler, the exception leaves validate.
UnexpectedFailure_raised(ran, fault) ==
    [ok |-> FALSE, reason |-> "", ran |-> ran, fault |-> fault,
     raised |-> Err(fault, <<>>)]

\* except Exception as e: return False, f"Validation error: {str(e)}"
UnexpectedFailure(ran, fault) ==
    [ok |-> FALSE, reason |-> "Validation error", ran |-> ran,
     fault |-> fault, raised |-> NoError]

\* The file reaches the size check: it exists and its format is accepted.
ReachesSize(f, formats) ==
    f.exists /\ get_file_extension(f.extension) \in formats

\* An empty classifier reports on no file: detectMultiScale raises.
DetectorCan(v, f) == v.cascade = "empty" => f.detector[1] # "ok"

\* image_validator.validate(image_path): the argument is no path and
\* os.path.exists raises TypeError, or os.path.getsize raises OSError on a
\* file that has gone, or the checks run to their verdict.
ValidateImageFile ==
    /\ val.state = "ready" /\ val.kind = "none"
    /\ \/ val' = Validated(val, "image", NoFile,
                           UnexpectedFailure(<<"exists">>, "TypeError"))
       \/ \E f \in ImageFiles :
            /\ ReachesSize(f, IMAGE_FORMATS)
            /\ val' = Validated(val, "image", f,
                         UnexpectedFailure(<<"exists", "format", "size">>,
                                           "OSError"))
       \/ \E f \in ImageFiles :
            /\ DetectorCan(val, f)
            /\ val' = Validated(val, "image", f,
                         Verdict(RunImageChecks(ImageChecks(val), val, f, <<>>)))
    /\ UNCHANGED <<flowVars, proc, dl, auxVars>>

\* video_validator.validate(video_path), with the same three courses.
ValidateVideoFile ==
    /\ val.state = "ready" /\ val.kind = "none"
    /\ \/ val' = Validated(val, "video", NoFile,
                           UnexpectedFailure(<<"exists">>, "TypeError"))
       \/ \E f \in VideoFiles :
            /\ ReachesSize(f, VIDEO_FORMATS)
            /\ val' = Validated(val, "video", f,
                         UnexpectedFailure(<<"exists", "format", "size">>,
                                           "OSError"))
       \/ \E f \in VideoFiles :
            /\ DetectorCan(val, f)
            /\ val' = Validated(val, "video", f,
                         Verdict(RunVideoChecks(VideoChecks(val), val, f, <<>>)))
    /\ UNCHANGED <<flowVars, proc, dl, auxVars>>

\* ------------------------------------------------------ retry_with_backoff
\* What one call of func(*args, **kwargs) can do: return, or raise.
FuncExceptions == {"UploadError", "APIError", "ConnectionError"}

Ev(ev, exc, t) == [ev |-> ev, exc |-> exc, t |-> t]

RECURSIVE Pow(_, _)
\* b ** e for a natural exponent
Pow(b, e) == IF e = 0 THEN 1 ELSE b * Pow(b, e - 1)

\* Mutant: the exponent is the attempt number instead of the attempt index.
BackoffWait_next(b, a) == Pow(b, a + 1)

\* wait_time = self.retry_backoff ** attempt
BackoffWait(b, a) == Pow(b, a)

\* Mutant: the sleep before the last attempt is left out.
SleepsAfter_early(a, n) == a < n - 2

\* if attempt < self.max_retries - 1
SleepsAfter(a, n) == a < n - 1

\* for attempt in range(self.max_retries)
InRange(a, n) == a < n

\* A client calls processor.retry_with_backoff(func).
CallRetryWithBackoff ==
    /\ pc = "idle"
    /\ entry' = "retry_with_backoff"
    /\ attempt' = 0
    /\ last_exception' = NoError
    /\ pc' = "retry"
    /\ UNCHANGED <<configVars, skip_validation, progress_callback, waitVars,
                   calls, result, raised, trace, retry_result, otherVars,
                   toolVars, auxVars>>

\* One pass of the loop body: the call, and on failure the backoff sleep.
RetryAttempt ==
    /\ pc = "retry"
    /\ InRange(attempt, max_retries)
    /\ \E outcome \in {"ok"} \cup FuncExceptions :
         IF outcome = "ok"
         THEN /\ trace' = Append(trace, Ev("attempt_ok", "", 0))
              /\ retry_result' = [kind |-> "return", error |-> NoError]
              /\ pc' = "returned"
              /\ UNCHANGED <<attempt, last_exception, now>>
         ELSE /\ last_exception' = Err(outcome, <<>>)
              /\ attempt' = attempt + 1
              /\ IF SleepsAfter(attempt, max_retries)
                 THEN LET wait_time == BackoffWait(retry_backoff, attempt) IN
                      /\ trace' = trace \o <<Ev("attempt_failed", outcome, 0),
                                             Ev("sleep", "", wait_time)>>
                      /\ now' = now + wait_time
                 ELSE /\ trace' = Append(trace, Ev("attempt_failed", outcome, 0))
                      /\ now' = now
              /\ UNCHANGED <<retry_result, pc>>
    /\ UNCHANGED <<configVars, entry, skip_validation, progress_callback,
                   timeout, start_time, poll_count, task_info, delivered,
                   sleeps, callbacks, query_time, wait_result, calls, result,
                   raised, otherVars, toolVars, auxVars>>

\* After the loop: raise last_exception (raising None is a TypeError).
RetryExhausted ==
    /\ pc = "retry"
    /\ ~InRange(attempt, max_retries)
    /\ LET e == IF last_exception = NoError
                THEN Err("TypeError", <<"exceptions must derive from BaseException">>)
                ELSE last_exception IN
       /\ retry_result' = [kind |-> "raise", error |-> e]
       /\ raised' = e
    /\ pc' = "raised"
    /\ UNCHANGED <<configVars, entry, skip_validation, progress_callback,
                   waitVars, calls, result, attempt, last_exception, trace,
                   otherVars, toolVars, auxVars>>

\* The state after construction, the configuration apart.
InitState ==
    /\ entry = "none"
    /\ skip_validation = FALSE
    /\ progress_callback = FALSE
    /\ timeout = 0
    /\ pc = "idle"
    /\ now = 0
    /\ start_time = 0
    /\ poll_count = 0
    /\ task_info = NoInfo
    /\ delivered = NoInfo
    /\ sleeps = 0
    /\ callbacks = 0
    /\ query_time = 0
    /\ wait_result = NoWaitResult
    /\ calls = [s \in Stages |-> 0]
    /\ result = NoResult
    /\ raised = NoError
    /\ attempt = 0
    /\ last_exception = NoError
    /\ trace = <<>>
    /\ retry_result = NoRetryResult
    /\ log = <<>>
    /\ batch = NoBatch
    /\ dl = NoDownload
    /\ val = NoValidators
    /\ est = <<>>
    /\ user_callback = NoCallback
    /\ fetch = NoFetch

\* Wan22Processor.__init__ reads the configuration; the polling parameters
\* range over the bounds, the retry parameters are the defaults.
Init ==
    /\ InitState
    /\ up = NoUploads
    /\ \E mode \in Modes : proc = ReadyProcessor(mode)
    /\ polling_interval \in 1..MaxInterval
    /\ max_wait_time \in 0..MaxTimeout
    /\ max_retries = MAX_RETRIES
    /\ retry_backoff = RETRY_BACKOFF_FACTOR

Next ==
    \/ CallWaitForTask
    \/ CallProcess
    \/ ValidateImage
    \/ ValidateVideo
    \/ UploadImage
    \/ UploadVideo
    \/ CreateTask
    \/ Poll
    \/ Callback
    \/ CheckStatus
    \/ ExtractResult
    \/ Download

Spec == Init /\ [][Next]_vars

\* The retry parameters range over the bounds (zero and negative max_retries
\* included), the polling parameters are the defaults.
InitRetry ==
    /\ InitState
    /\ up = NoUploads
    /\ proc = ReadyProcessor(DEFAULT_MODE)
    /\ polling_interval = POLLING_INTERVAL
    /\ max_wait_time = MAX_WAIT_TIME
    /\ max_retries \in -1..MaxRetries
    /\ retry_backoff \in 1..MaxBackoff

NextRetry ==
    \/ CallRetryWithBackoff
    \/ RetryAttempt
    \/ RetryExhausted

SpecRetry == InitRetry /\ [][NextRetry]_vars

\* process_batch with a short wait: every job is polled at most twice.
InitBatch ==
    /\ InitState
    /\ up = NoUploads
    /\ proc = ReadyProcessor(DEFAULT_MODE)
    /\ polling_interval = 1
    /\ max_wait_time = 1
    /\ max_retries = MAX_RETRIES
    /\ retry_backoff = RETRY_BACKOFF_FACTOR

NextBatch ==
    \/ CallProcessBatch
    \/ BatchNext
    \/ ValidateImage
    \/ ValidateVideo
    \/ UploadImage
    \/ UploadVideo
    \/ CreateTask
    \/ Poll
    \/ Callback
    \/ CheckStatus
    \/ ExtractResult
    \/ Download
    \/ BatchRecord

SpecBatch == InitBatch /\ [][NextBatch]_vars

\* Config.USE_OSS selects the direct-bucket or the broker variant.
InitUpload ==
    /\ InitState
    /\ proc = ReadyProcessor(DEFAULT_MODE)
    /\ \E use_oss \in BOOLEAN : up = [NoUploads EXCEPT !.use_oss = use_oss]
    /\ polling_interval = POLLING_INTERVAL
    /\ max_wait_time = MAX_WAIT_TIME
    /\ max_retries = MAX_RETRIES
    /\ retry_backoff = RETRY_BACKOFF_FACTOR

NextUpload ==
    \/ CallUploadFile
    \/ UploadToOss
    \/ GetPolicy
    \/ PostFile
    \/ Synthesise

SpecUpload == InitUpload /\ [][NextUpload]_vars

\* A client constructs a processor (or a swapper) and calls create_task and
\* download_result on it.
InitProcessor ==
    /\ InitState
    /\ up = NoUploads
    /\ proc = NoProcessor
    /\ polling_interval = POLLING_INTERVAL
    /\ max_wait_time = MAX_WAIT_TIME
    /\ max_retries = MAX_RETRIES
    /\ retry_backoff = RETRY_BACKOFF_FACTOR

NextProcessor ==
    \/ ConstructProcessor
    \/ CreateTaskCall
    \/ CallDownloadResult
    \/ EnsureDirectory
    \/ GetResponse
    \/ OpenFile
    \/ WriteChunk

SpecProcessor == InitProcessor /\ [][NextProcessor]_vars

\* The validators are loaded and one file is validated.
InitValidate ==
    /\ InitState
    /\ up = NoUploads
    /\ proc = ReadyProcessor(DEFAULT_MODE)
    /\ polling_interval = POLLING_INTERVAL
    /\ max_wait_time = MAX_WAIT_TIME
    /\ max_retries = MAX_RETRIES
    /\ retry_backoff = RETRY_BACKOFF_FACTOR

NextValidate ==
    \/ LoadValidators
    \/ ValidateImageFile
    \/ ValidateVideoFile

SpecValidate == InitValidate /\ [][NextValidate]_vars

\* Config.estimate_cost is called with durations and modes of the bounds.
InitCost ==
    /\ InitState
    /\ up = NoUploads
    /\ proc = ReadyProcessor(DEFAULT_MODE)
    /\ polling_interval = POLLING_INTERVAL
    /\ max_wait_time = MAX_WAIT_TIME
    /\ max_retries = MAX_RETRIES
    /\ retry_backoff = RETRY_BACKOFF_FACTOR

NextCost == EstimateCost

SpecCost == InitCost /\ [][NextCost]_vars

\* The two workflows, VideoFaceSwapper.process and Wan22Processor.process,
\* and wait_for_task.
NextWorkflow ==
    \/ CallWaitForTask
    \/ CallProcess
    \/ ValidateImage
    \/ ValidateVideo
    \/ UploadImage
    \/ UploadVideo
    \/ CreateTask
    \/ Poll
    \/ Callback
    \/ CheckStatus
    \/ ExtractResult
    \/ Download
    \/ CallWorkflow
    \/ WorkflowCreate
    \/ WorkflowExtract
    \/ WorkflowDownload

SpecWorkflow == Init /\ [][NextWorkflow]_vars

\* The thread keeps running: a sleep ends and an HTTP call returns or times out.
LiveSpec == Init /\ [][Next]_vars /\ WF_vars(Next)

\* ------------------------------------------------------------------ claims
WaitEnded == wait_result.kind # "none"
ObservedStatus == TaskStatusOf(task_info)
KnownStatuses == {PENDING, RUNNING, SUCCEEDED, FAILED, CANCELED, UNKNOWN}
\* Once wait_for_task has ended it neither queries nor sleeps again.
NothingAfterWait ==
    WaitEnded => poll_count' = poll_count /\ sleeps' = sleeps /\ now' = now
\* The status check ends the wait on this poll: no sleep, no query.
EndsOnThisPoll ==
    /\ wait_result'.kind # "none"
    /\ poll_count' = poll_count /\ sleeps' = sleeps /\ now' = now

\* C1 as stated: every status other than PENDING and RUNNING, a string outside
\* the six included, ends the wait on the poll that observed it.
C1_Original ==
    [][pc = "status" /\ ObservedStatus \notin {PENDING, RUNNING}
          => EndsOnThisPoll]_vars

\* C1 amended: PENDING, RUNNING and every status string outside the six make
\* the loop sleep and go round again; SUCCEEDED, FAILED, CANCELED and UNKNOWN
\* (an absent status included) end the wait on the poll that observed them,
\* with no sleep and no further query, then or later.
C1_Amended ==
    [][/\ pc = "status" =>
            IF ObservedStatus \in {PENDING, RUNNING}
               \/ ObservedStatus \notin KnownStatuses
            THEN /\ pc' = "poll" /\ wait_result'.kind = "none"
                 /\ sleeps' = sleeps + 1 /\ poll_count' = poll_count
            ELSE EndsOnThisPoll
       /\ NothingAfterWait]_vars

\* An unrecognised status was observed and the loop went round again.
C1_Witness ==
    /\ pc = "poll" /\ sleeps > 0
    /\ task_info.task_status = OtherStatus

\* C2: a poll that observes FAILED, CANCELED or UNKNOWN raises an APIError at
\* once: for FAILED with the job's code and message, for CANCELED and UNKNOWN
\* with a generic message; no sleep and no query follow.
C2_FailFast ==
    [][/\ pc = "status" /\ ObservedStatus \in {FAILED, CANCELED, UNKNOWN} =>
            /\ EndsOnThisPoll
            /\ wait_result'.kind = "raise"
            /\ wait_result'.error.type = "APIError"
            /\ ObservedStatus = FAILED =>
                 /\ wait_result'.error.msg[1] = "Task failed"
                 /\ task_info.code # Absent =>
                        wait_result'.error.msg[2] = task_info.code
                 /\ task_info.message # Absent =>
                        wait_result'.error.msg[3] = task_info.message
            /\ ObservedStatus = CANCELED =>
                 wait_result'.error.msg = <<"Task was canceled">>
            /\ ObservedStatus = UNKNOWN =>
                 wait_result'.error.msg = <<"Task not found or status unknown">>
       /\ NothingAfterWait]_vars

\* The wait failed on a FAILED job that reported a code and a message.
C2_Witness ==
    /\ wait_result.kind = "raise"
    /\ delivered.task_status = FAILED
    /\ delivered.code = "E_FACE_NOT_FOUND" /\ delivered.message = "no face"
    /\ wait_result.error.msg = <<"Task failed", "E_FACE_NOT_FOUND", "no face">>

\* C3: wait_for_task always ends, by a return or an APIError, whatever the
\* job reports, and it ends no later than timeout + polling_interval after it
\* started, plus the time its queries took (none when they are instantaneous).
C3_Terminates ==
    /\ (pc \in {"poll", "callback", "status"}) ~> WaitEnded
    /\ [][~WaitEnded /\ wait_result'.kind # "none" =>
            /\ wait_result'.kind = "raise" => wait_result'.error.type = "APIError"
            /\ now' - start_time <= timeout + polling_interval + query_time']_vars

\* A wait on a job that never finished, ended by the timeout exactly
\* timeout + polling_interval after it started.
C3_Witness ==
    /\ wait_result.kind = "raise" /\ wait_result.error = TaskTimeoutError
    /\ query_time = 0 /\ sleeps >= 2
    /\ now - start_time = timeout + polling_interval

\* C4 as stated: a status query is issued only while the elapsed time is
\* strictly less than the deadline.
C4_Original ==
    [][poll_count' = poll_count + 1 => now - start_time < timeout]_vars

\* C4 amended: a status query is issued only while the elapsed time is at most
\* the deadline (a query is still issued when it equals the deadline); when
\* the loop's check finds it strictly greater, a timeout APIError is raised
\* without another query.
C4_Amended ==
    [][/\ poll_count' # poll_count => pc = "poll"
       /\ pc = "poll" =>
            IF now - start_time > timeout
            THEN /\ wait_result'.kind = "raise"
                 /\ wait_result'.error = TaskTimeoutError
                 /\ poll_count' = poll_count
            ELSE poll_count' = poll_count + 1]_vars

\* A query was just issued with the elapsed time equal to the deadline.
C4_Witness ==
    /\ pc = "status" /\ poll_count >= 2 /\ query_time = 0
    /\ now - start_time = timeout

\* C5: once a query has returned SUCCEEDED, FAILED or CANCELED for the job, no
\* further query is issued in the same invocation.
C5_NoRequery ==
    [][poll_count > 0 /\ TaskStatusOf(delivered) \in {SUCCEEDED, FAILED, CANCELED}
          => poll_count' = poll_count]_vars

\* process ended after its job was observed CANCELED on a later poll.
C5_Witness ==
    /\ entry = "process" /\ pc = "raised" /\ poll_count >= 2
    /\ delivered.task_status = CANCELED

\* C6: the snapshot wait_for_task returns is the SUCCEEDED snapshot the last
\* query delivered, field for field.
C6_Unchanged ==
    wait_result.kind = "return" =>
        /\ wait_result.value = delivered
        /\ delivered.task_status = SUCCEEDED

\* A snapshot with a result URL and a usage block was returned.
C6_Witness ==
    /\ wait_result.kind = "return"
    /\ wait_result.value.video_url # Absent
    /\ wait_result.value.has_usage /\ wait_result.value.video_duration = 10

\* C7: a query result without a task status, or with UNKNOWN, ends the wait
\* with the "not found" APIError on that poll; the loop never goes round again
\* after it.
C7_MissingIsFatal ==
    (/\ poll_count > 0 /\ delivered.task_status \in {Absent, UNKNOWN}
     /\ pc \notin {"callback", "status"}) =>
        /\ wait_result.kind = "raise"
        /\ wait_result.error.type = "APIError"
        /\ wait_result.error.msg = <<"Task not found or status unknown">>

\* The wait failed on a snapshot that carried no status at all.
C7_Witness ==
    /\ poll_count > 0 /\ delivered.task_status = Absent
    /\ wait_result.kind = "raise"

\* C8 as stated: the callback is invoked only on a poll that observed PENDING
\* or RUNNING.
C8_Original ==
    [][callbacks' = callbacks + 1 => ObservedStatus \in {PENDING, RUNNING}]_vars

\* C8 amended: a callback that was passed is invoked once on every poll whose
\* query returned a snapshot, whatever the status (terminal ones included),
\* after the query and before the status check, hence before any sleep; it is
\* not invoked when none was passed.
C8_Amended ==
    /\ pc = "callback" => progress_callback /\ callbacks = poll_count - 1
    /\ pc = "status" => callbacks = (IF progress_callback THEN poll_count ELSE 0)
    /\ WaitEnded /\ wait_result.error # QueryError /\ wait_result.error # TaskTimeoutError
         => callbacks = (IF progress_callback THEN poll_count ELSE 0)

\* The callback has been invoked on a poll that observed SUCCEEDED.
C8_Witness ==
    /\ pc = "status" /\ progress_callback /\ poll_count >= 2
    /\ callbacks = poll_count /\ ObservedStatus = SUCCEEDED

\* C9: with max_retries = N >= 1 and every attempt failing, retry_with_backoff
\* makes exactly N attempts and N-1 sleeps, one sleep between two consecutive
\* attempts, the i-th (from 0) of retry_backoff^i seconds, and then raises the
\* last attempt's own exception; for N = 3 and factor 2 the sleeps are 1 and 2.
C9_Exhaustion ==
    (retry_result.kind = "raise" /\ max_retries >= 1) =>
        LET N == max_retries IN
        /\ Len(trace) = 2 * N - 1
        /\ \A i \in 1..N : trace[2 * i - 1].ev = "attempt_failed"
        /\ \A i \in 1..(N - 1) :
             /\ trace[2 * i].ev = "sleep"
             /\ trace[2 * i].t = Pow(retry_backoff, i - 1)
        /\ retry_result.error = Err(trace[2 * N - 1].exc, <<>>)
        /\ (N = 3 /\ retry_backoff = 2) => trace[2].t = 1 /\ trace[4].t = 2

\* Three failing attempts with factor 2, the last exception unlike the first.
C9_Witness ==
    /\ retry_result.kind = "raise"
    /\ max_retries = 3 /\ retry_backoff = 2
    /\ Len(trace) = 5 /\ trace[1].exc # trace[5].exc

\* C10 as stated: process reports the upload stage or the job creation as
\* failed only after max_retries attempts of the failing call.
C10_Retried ==
    (pc = "raised" /\ entry = "process") =>
        /\ (raised.msg[1] = "Upload failed" /\ calls["upload_video"] = 0)
              => calls["upload_image"] = max_retries
        /\ (raised.msg[1] = "Upload failed" /\ calls["upload_video"] > 0)
              => calls["upload_video"] = max_retries
        /\ raised.msg[1] = "Task creation failed"
              => calls["create_task"] = max_retries

StageOrder == <<"validate_image", "validate_video", "upload_image",
                "upload_video", "create_task", "download_result">>
Rank(stage) == CHOOSE k \in 1..Len(StageOrder) : StageOrder[k] = stage
\* The stages that must have succeeded before stage is issued: every earlier
\* one, the validations excepted when the caller asked to skip them.
Required(stage) ==
    {StageOrder[k] : k \in 1..(Rank(stage) - 1)}
        \ (IF skip_validation THEN {"validate_image", "validate_video"} ELSE {})
LoggedStages(n) == {log[k][1] : k \in 1..n}

\* C12: process issues its stage actions only in the order validate image,
\* validate video, upload image, upload video, create_task, status queries,
\* download; a stage action is issued only when every earlier stage has run
\* and succeeded (a validation the caller asked to skip counts as passed);
\* after a failed stage no later stage action is issued, so a failed
\* validation is followed by no upload, job creation, query or download.
C12_StageOrder ==
    InProcess =>
      /\ \A j \in 1..Len(log) :
           /\ \A k \in 1..(j - 1) :
                log[k][2] /\ Rank(log[k][1]) < Rank(log[j][1])
           /\ LoggedStages(j - 1) = Required(log[j][1])
      /\ \A stage \in Stages :
           calls[stage] = Cardinality({k \in 1..Len(log) : log[k][1] = stage})
      /\ (poll_count > 0) =>
           \E k \in 1..Len(log) : log[k] = <<"create_task", TRUE>>
      /\ ("download_result" \in LoggedStages(Len(log))) =>
           wait_result.kind = "return" /\ poll_count > 0
      /\ (Len(log) > 0 /\ ~log[Len(log)][2]) =>
           /\ pc = "raised"
           /\ (log[Len(log)][1] # "download_result") => poll_count = 0

\* A request went through all the stages and its result was downloaded.
C12_Witness ==
    /\ entry = "process" /\ pc = "done"
    /\ Len(log) = Len(StageOrder) /\ poll_count > 1

\* The prefix with which process names the stage that failed.
StagePrefix(stage) ==
    CASE stage = "validate_image" -> "Image validation failed"
      [] stage = "validate_video" -> "Video validation failed"
      [] stage \in {"upload_image", "upload_video"} -> "Upload failed"
      [] stage = "create_task" -> "Task creation failed"
      [] OTHER -> "Download failed"
StagePrefixes == {StagePrefix(stage) : stage \in Stages} \cup {"Task processing failed"}
ProcessFailed == InProcess /\ pc = "raised"

\* C13 as stated: every failure of process is a ProcessingError whose message
\* names the stage that failed.
C13_Original ==
    ProcessFailed =>
      raised.type = "ProcessingError" /\ raised.msg[1] \in StagePrefixes

\* C13: every failure of process reaches the caller as a ProcessingError and
\* as no other type.  A stage action that failed is named by its prefix, with
\* the cause; an error of wait_for_task is "Task processing failed" with the
\* APIError's text; a SUCCEEDED snapshot without result URL is reported as
\* "Result video URL not found" and any other exception as "Unexpected error"
\* with the cause, neither naming a stage.
C13_Amended ==
    ProcessFailed =>
      /\ raised.type = "ProcessingError"
      /\ Len(raised.msg) >= 1
      /\ CASE Len(log) > 0 /\ ~log[Len(log)][2] ->
                raised.msg[1] = StagePrefix(log[Len(log)][1])
                  /\ Len(raised.msg) = 2
           [] wait_result.kind = "raise" ->
                raised = ProcessingError("Task processing failed",
                                         wait_result.error)
           [] wait_result.kind = "return"
                /\ wait_result.value.video_url = Absent ->
                raised.msg = <<"Result video URL not found">>
           [] OTHER ->
                raised.msg = <<"Unexpected error", "OSError">>

\* The output directory could not be created after the job succeeded.
C13_Witness ==
    /\ entry = "process" /\ pc = "raised"
    /\ raised = UnexpectedError("OSError")
    /\ wait_result.kind = "return"

\* The job id in what process hands to its caller: the result dictionary on
\* return; on a raise only the exception, the dictionary being a local of
\* process that is dropped, and the message carrying no job id.
ReportedTaskId == IF pc = "done" THEN result.task_id ELSE <<>>
JobFailedWithCode ==
    /\ ProcessFailed /\ wait_result.kind = "raise"
    /\ delivered.task_status = FAILED
    /\ delivered.code # Absent /\ delivered.message # Absent

\* C14: when a polled job reports FAILED with an error code and a message,
\* process fails with a ProcessingError whose text embeds that code and that
\* message, and the job id that create_task returned is reported to the
\* caller in the outcome of the invocation.
C14_JobIdReported ==
    JobFailedWithCode =>
      /\ raised = Err("ProcessingError",
                      <<"Task processing failed", "Task failed",
                        delivered.code, delivered.message>>)
      /\ ReportedTaskId = result.task_id

\* C15 as stated: the skip request leaves image validation in place, so an
\* upload is always preceded by a passed image validation.
C15_Original ==
    (InProcess /\ calls["upload_image"] > 0) =>
      (Len(log) > 0 /\ log[1] = <<"validate_image", TRUE>>)

\* C15: the skip request of process skips both validations: with it neither
\* validator is invoked and the upload stage comes first; without it the
\* image validation and then the video validation pass before any upload,
\* and an invalid image prevents the upload stage.
C15_Amended ==
    InProcess =>
      /\ skip_validation =>
           calls["validate_image"] = 0 /\ calls["validate_video"] = 0
      /\ (~skip_validation /\ calls["upload_image"] > 0) =>
           /\ log[1] = <<"validate_image", TRUE>>
           /\ log[2] = <<"validate_video", TRUE>>
      /\ (Len(log) > 0 /\ log[1] = <<"validate_image", FALSE>>) =>
           Len(log) = 1 /\ calls["upload_image"] = 0

\* With the skip requested the image was uploaded without being validated.
C15_Witness ==
    /\ entry = "process" /\ skip_validation
    /\ calls["upload_image"] = 1 /\ calls["validate_image"] = 0

\* A job the service last reported as not finished.
InFlight == {PENDING, RUNNING}
\* process is running for request batch.i of the batch.
ProcessingItem ==
    entry = "process_batch" /\ pc \notin {"batch_next", "batch_returned"}

\* C16: process_batch never has two remote jobs in flight: when create_task
\* has been issued for a request, the job of no earlier request of the batch
\* is still pending or running on the service.
C16_OneJobInFlight ==
    (ProcessingItem /\ calls["create_task"] > 0) =>
      \A k \in 1..Len(batch.jobs) : batch.jobs[k] \notin InFlight

\* C17: in the aggregate of process_batch total is the number of requests,
\* the outcomes are in request order, successful + failed is the number of
\* outcomes at every point (successful counting the successful ones), and
\* with continue_on_error on every request has exactly one outcome on
\* return, so that successful + failed = total.
C17_Aggregate ==
    (entry = "process_batch") =>
      /\ batch.total = Len(batch.tasks)
      /\ \A k \in 1..Len(batch.outcomes) : batch.outcomes[k].task_number = k
      /\ batch.successful + batch.failed = Len(batch.outcomes)
      /\ batch.successful =
           Cardinality({k \in 1..Len(batch.outcomes) : batch.outcomes[k].success})
      /\ (pc = "batch_returned" /\ batch.continue_on_error) =>
           /\ Len(batch.outcomes) = batch.total
           /\ batch.successful + batch.failed = batch.total

\* A batch with continue_on_error returned with one request failed in
\* process and another one successful after it.
C17_Witness ==
    /\ entry = "process_batch" /\ pc = "batch_returned"
    /\ batch.continue_on_error
    /\ Len(batch.outcomes) = 2
    /\ batch.outcomes[1].error.type = "ProcessingError"
    /\ batch.outcomes[2].success

\* C18: with continue_on_error off process_batch stops at the first request
\* that fails: at most one failure is counted, and once it is, it is the
\* last outcome and process runs for no later request.
C18_StopsAtFirstFailure ==
    (entry = "process_batch" /\ ~batch.continue_on_error) =>
      /\ batch.failed <= 1
      /\ (batch.failed = 1) =>
           /\ ~ProcessingItem
           /\ ~batch.outcomes[Len(batch.outcomes)].success

BrokerUpload == ~up.use_oss /\ up.n > 0

\* C19: an upload through the broker issues the policy GET, then one POST of
\* the file, then builds the reference from the storage key; each request is
\* issued at most once per call; an oss:// reference is returned only when
\* the POST was answered with 200; every failure, a POST answered with
\* another status included, ends the call with an UploadError and nothing
\* else.
C19_BrokerUpload ==
    BrokerUpload =>
      /\ up.gets <= 1 /\ up.posts <= 1
      /\ up.requests \in {<<>>, <<"GET">>, <<"GET", "POST">>}
      /\ Len(up.requests) = up.gets + up.posts
      /\ (up.step \in {"synthesise", "returned"}) =>
           up.status = 200 /\ up.requests = <<"GET", "POST">>
      /\ (up.step = "returned") =>
           /\ up.returned = <<"oss://", up.upload_dir, up.path[2]>>
           /\ up.error = NoError
      /\ (up.step # "returned") => up.returned = <<>>
      /\ (up.status \notin {0, 200}) => up.step = "raised"
      /\ (up.step = "raised") => up.error.type = "UploadError"
      /\ (up.step # "raised") => up.error = NoError

\* The upload host answered the POST with 403 and the call raised.
C19_Witness ==
    /\ BrokerUpload /\ up.step = "raised"
    /\ up.status = 403 /\ up.requests = <<"GET", "POST">>

\* C20: in the direct-bucket variant any two uploads made without an
\* explicit remote name are stored under different keys.
C20_DistinctKeys ==
    up.use_oss =>
      \A j, k \in 1..Len(up.keys) : j # k => up.keys[j] # up.keys[k]

\* C21: no create request is sent with a mode outside {wan-std, wan-pro}: a
\* processor, constructed directly or through the orchestrator, with the
\* mode given or taken from the configuration, either has a valid mode or
\* was rejected at construction, and a rejected one sends nothing.
C21_ValidModeSent ==
    /\ \A k \in 1..Len(proc.sent) : proc.sent[k] \in Modes
    /\ (proc.state = "ready") => proc.mode \in Modes
    /\ (proc.state = "raised") =>
         /\ proc.sent = <<>>
         /\ proc.error.type \in {"ValueError", "ProcessingError"}

\* The construction with an invalid mode was rejected.
C21_Witness ==
    /\ proc.state = "raised" /\ proc.mode = "wan-max"
    /\ proc.error = Err("ValueError", <<"Invalid mode", "wan-max">>)

CreateCalled == Len(proc.sent) > 0

\* C22: create_task returns a job id only when the response carries no error
\* code and contains output.task_id, and the id returned is that field; in
\* every other case (error code, no job id, transport failure, malformed
\* body) it raises APIError and returns no id.
C22_CreateTask ==
    CreateCalled =>
      LET accepted == /\ proc.response.kind = "json"
                      /\ proc.response.code = Absent
                      /\ proc.response.output = "task" IN
      /\ accepted => /\ proc.returned = proc.response.task_id
                     /\ proc.returned # <<>>
                     /\ proc.error = NoError
      /\ ~accepted => /\ proc.returned = <<>>
                      /\ proc.error.type = "APIError"

\* The response carried an error code next to a job id, and create_task
\* raised.
C22_Witness ==
    /\ CreateCalled
    /\ proc.response.code # Absent /\ proc.response.output = "task"
    /\ proc.error = Err("APIError", <<"API Error", "InvalidParameter">>)

\* C23: download_result never raises: whatever fails (creating the
\* directory, the request, its status, opening or writing the file, the
\* connection) it returns (False, message), and it returns (True, message)
\* only when every chunk of the body has been written.
C23_DownloadNeverRaises ==
    /\ dl.step # "raised" /\ dl.raised = NoError
    /\ (dl.step = "returned") =>
         /\ dl.returned[1] => dl.written = dl.total
         /\ ~dl.returned[1] =>
              dl.returned[2] \in {"Download failed",
                                  "Unexpected error during download"}
    /\ (dl.step # "returned") => dl.returned = <<>>

\* The write of the second chunk failed and the call returned False.
C23_Witness ==
    /\ dl.step = "returned" /\ ~dl.returned[1]
    /\ dl.returned[2] = "Unexpected error during download"
    /\ dl.written = 1 /\ dl.total = 2

\* C24: when process succeeds after the job reported usage.video_duration
\* = d, the cost of the returned outcome is d times the price of the mode,
\* 0.6 RMB a second for wan-std and 0.9 for wan-pro (in tenths of RMB: 6 d
\* and 9 d, so 60 tenths for d = 10 in standard mode).
C24_Cost ==
    (entry = "process" /\ pc = "done" /\ wait_result.value.has_usage) =>
      LET d == wait_result.value.video_duration IN
      /\ result.has_cost
      /\ result.video_duration = d
      /\ (proc.mode = "wan-std") => result.cost = 6 * d
      /\ (proc.mode = "wan-pro") => result.cost = 9 * d
      /\ (proc.mode = "wan-std" /\ d = 10) => result.cost = 60

\* process succeeded in professional mode for a job that used 3 seconds.
C24_Witness ==
    /\ entry = "process" /\ pc = "done" /\ result.success
    /\ proc.mode = "wan-pro"
    /\ wait_result.value.has_usage /\ wait_result.value.video_duration = 3
    /\ result.cost = 27

\* The image given to ImageValidator.validate exists, has an accepted
\* format and size, and can be opened, so that its dimensions are read.
ImageDimensionsRead ==
    /\ val.kind = "image" /\ val.fault = "none"
    /\ val.file.exists
    /\ get_file_extension(val.file.extension) \in IMAGE_FORMATS
    /\ val.file.file_size <= IMAGE_MAX_FILE_SIZE
    /\ val.file.opens

\* C25: an image that passes the existence, format and size checks (and can
\* be opened) is rejected with a dimension reason exactly when its width or
\* its height is outside [200, 4096] px; sides of 200 and 4096 are not
\* rejected for their dimensions, sides of 199 and 4097 are.
C25_ImageDimensions ==
    ImageDimensionsRead =>
      LET w == val.file.width
          h == val.file.height
          outside == w < 200 \/ w > 4096 \/ h < 200 \/ h > 4096
          dimension_reason == val.reason \in {"Image too small", "Image too large"}
      IN /\ outside <=> dimension_reason
         /\ outside => ~val.ok
         /\ ({w, h} \subseteq {200, 4096}) => ~dimension_reason
         /\ ({w, h} \cap {199, 4097} # {}) => (~val.ok /\ dimension_reason)

\* An image 4097 px wide and 4096 px high was rejected as too large.
C25_Witness ==
    /\ ImageDimensionsRead
    /\ val.file.width = 4097 /\ val.file.height = 4096
    /\ ~val.ok /\ val.reason = "Image too large"

\* The video given to VideoValidator.validate exists, has an accepted format
\* and size, and OpenCV opened it and read its properties.
VideoPropertiesRead ==
    /\ val.kind = "video" /\ val.fault = "none"
    /\ val.cv2
    /\ val.file.exists
    /\ get_file_extension(val.file.extension) \in VIDEO_FORMATS
    /\ val.file.file_size <= VIDEO_MAX_FILE_SIZE
    /\ val.file.opens
    /\ val.file.fps > 0

\* The file passed every check that precedes the aspect ratio check.
DimensionsPassed ==
    LET w == val.file.width
        h == val.file.height
    IN \/ ImageDimensionsRead /\ {w, h} \subseteq 200..4096
       \/ VideoPropertiesRead /\ {w, h} \subseteq 200..2048

\* C26: for an image or a video that passed the checks before it, the
\* aspect ratio check rejects exactly when width / height is below 1/3 or
\* above 3; every pair of dimensions whose ratio is exactly 1/3 or 3 is let
\* through by it.
C26_AspectRatio ==
    DimensionsPassed =>
      LET w == val.file.width
          h == val.file.height
          inside == h <= 3 * w /\ w <= 3 * h
          aspect_reason == val.reason = "Invalid aspect ratio"
      IN /\ aspect_reason <=> ~inside
         /\ ~inside => ~val.ok
         /\ (w = 3 * h \/ h = 3 * w) => ~aspect_reason

\* A video of 2046 x 682 px, ratio exactly 3, was accepted.
C26_Witness ==
    /\ DimensionsPassed /\ val.kind = "video"
    /\ val.file.width = 2046 /\ val.file.height = 682
    /\ val.ok

\* The duration frame_count / fps of the validated video is within
\* [2, 30] seconds.
DurationInRange ==
    /\ 2 * val.file.fps <= val.file.frame_count
    /\ val.file.frame_count <= 30 * val.file.fps

\* The validated file satisfies the face constraint: detection is off, or
\* one face was found, or the detector failed and the check was skipped.
FacesSatisfied ==
    \/ ~val.enable_face_detection
    \/ val.file.detector \in {<<"ok", 1>>, <<"error", 0>>}

\* The validated video satisfies every constraint other than the duration.
VideoOtherwiseValid ==
    /\ val.fault = "none"
    /\ val.file.exists
    /\ get_file_extension(val.file.extension) \in VIDEO_FORMATS
    /\ val.file.file_size <= VIDEO_MAX_FILE_SIZE
    /\ val.file.opens /\ val.file.fps > 0
    /\ {val.file.width, val.file.height} \subseteq 200..2048
    /\ val.file.height <= 3 * val.file.width
    /\ val.file.width <= 3 * val.file.height
    /\ FacesSatisfied

\* C27 as stated: a video whose other constraints are satisfied is accepted
\* if and only if its duration is within [2, 30] seconds, and no video of a
\* duration outside this range is accepted on any path through validate.
C27_Original ==
    (val.kind = "video" /\ VideoOtherwiseValid) =>
      (val.ok <=> DurationInRange)

\* C27 (amended): when OpenCV is available, a video whose other constraints
\* are satisfied is accepted if and only if its duration is within [2, 30]
\* seconds, and a video of a duration outside the range is rejected as too
\* short or too long; when OpenCV is unavailable the duration is not read
\* and every existing file of accepted format and size is accepted.
C27_Amended ==
    /\ (val.kind = "video" /\ val.cv2 /\ VideoOtherwiseValid) =>
         /\ val.ok <=> DurationInRange
         /\ val.file.frame_count < 2 * val.file.fps
              <=> val.reason = "Video too short"
         /\ val.file.frame_count > 30 * val.file.fps
              <=> val.reason = "Video too long"
    /\ (val.kind = "video" /\ ~val.cv2 /\ val.fault = "none"
          /\ val.file.exists
          /\ get_file_extension(val.file.extension) \in VIDEO_FORMATS
          /\ val.file.file_size <= VIDEO_MAX_FILE_SIZE) => val.ok

\* With OpenCV available a video of exactly 30 seconds (750 frames at 25
\* frames a second) was accepted.
C27_Witness ==
    /\ val.kind = "video" /\ val.cv2 /\ VideoOtherwiseValid
    /\ val.file.frame_count = 750 /\ val.file.fps = 25
    /\ val.ok

\* The validated file violates the constraint of the named check.
C28_Violated(check) ==
    LET f == val.file
        image == val.kind = "image"
    IN CASE check = "exists" -> ~f.exists
         [] check = "format" ->
              get_file_extension(f.extension) \notin
                (IF image THEN IMAGE_FORMATS ELSE VIDEO_FORMATS)
         [] check = "size" ->
              f.file_size >
                (IF image THEN IMAGE_MAX_FILE_SIZE ELSE VIDEO_MAX_FILE_SIZE)
         [] check = "load" -> ~f.opens \/ (~image /\ f.fps <= 0)
         [] check = "dimensions" ->
              ~({f.width, f.height} \subseteq
                  200..(IF image THEN 4096 ELSE 2048))
         [] check = "aspect" ->
              ~(f.height <= 3 * f.width /\ f.width <= 3 * f.height)
         [] check = "duration" -> ~DurationInRange
         [] OTHER -> ~FacesSatisfied

\* The reasons with which the named check rejects.
C28_Reasons(check) ==
    CASE check = "exists" -> {"File not found"}
      [] check = "format" -> {"Invalid image format", "Invalid video format"}
      [] check = "size" -> {"Image file too large", "Video file too large"}
      [] check = "load" -> {"Failed to load image", "Failed to open video file",
                            "Could not determine video FPS"}
      [] check = "dimensions" ->
           {"Image too small", "Image too large", "Video resolution too small",
            "Video resolution too large"}
      [] check = "aspect" -> {"Invalid aspect ratio"}
      [] check = "duration" -> {"Video too short", "Video too long"}
      [] OTHER -> {"Failed to read for face detection", "No face detected",
                   "Multiple faces detected"}

\* The named check is part of the validation made: the duration is checked
\* for videos only, the faces when face detection is on, and a video is
\* opened and measured only when OpenCV is available.
C28_Applies(check) ==
    /\ check = "duration" => val.kind = "video"
    /\ check = "faces" => val.enable_face_detection
    /\ (val.kind = "video" /\ ~val.cv2) => check \in {"exists", "format", "size"}

\* C28: validate makes its checks in the order existence, format, file
\* size, (opening the file,) dimensions, aspect ratio, duration (video only),
\* face count, and stops at the first that fails: the reason returned is
\* that of the earliest violated check, the checks made are those up to it
\* and no later one, and a file that violates none is accepted (no file
\* operation raising unexpectedly).
C28_OrderedChecks ==
    (val.kind # "none" /\ val.fault = "none") =>
      LET order == SelectSeq(<<"exists", "format", "size", "load", "dimensions",
                               "aspect", "duration", "faces">>, C28_Applies)
          violated == {i \in 1..Len(order) : C28_Violated(order[i])}
      IN IF violated = {}
         THEN val.ok /\ val.ran = order
         ELSE LET first == CHOOSE i \in violated : \A j \in violated : i <= j
              IN /\ ~val.ok
                 /\ val.reason \in C28_Reasons(order[first])
                 /\ val.ran = SubSeq(order, 1, first)

\* An image of a format not accepted, larger than the size limit and 199 px
\* wide was rejected for its format, and no later check was made.
C28_Witness ==
    /\ val.kind = "image" /\ val.file.exists
    /\ val.file.extension = "gif"
    /\ val.file.file_size > IMAGE_MAX_FILE_SIZE
    /\ val.file.width = 199
    /\ ~val.ok /\ val.reason = "Invalid image format"
    /\ val.ran = <<"exists", "format">>

\* C29: when OpenCV is unavailable the video validator is still loaded and
\* usable, and its validate makes only the existence, format and size
\* checks and accepts every file that satisfies them.
C29_UsableWithoutOpenCV ==
    /\ (val.state # "none" /\ ~val.cv2) => val.state = "ready"
    /\ (val.kind = "video" /\ ~val.cv2) =>
         /\ \A i \in 1..Len(val.ran) : val.ran[i] \in {"exists", "format", "size"}
         /\ (/\ val.fault = "none"
             /\ val.file.exists
             /\ get_file_extension(val.file.extension) \in VIDEO_FORMATS
             /\ val.file.file_size <= VIDEO_MAX_FILE_SIZE) => val.ok

\* Face detection is enabled with its detector loaded, and the validated
\* file passed every check before the face check.
FaceCheckReached ==
    /\ val.enable_face_detection /\ val.face_cascade
    /\ DimensionsPassed
    /\ val.file.height <= 3 * val.file.width
    /\ val.file.width <= 3 * val.file.height
    /\ val.kind = "video" => DurationInRange

FaceDetectionUnavailable ==
    ~val.cv2 \/ val.cascade \in {"exception", "empty"}

\* C31: when the face-detection capability is unavailable the face check is
\* skipped without failing validation: no file is rejected with a reason of
\* the face check, so that the verdict is the one validate gives with face
\* detection disabled by configuration.
C31_SkippedWhenUnavailable ==
    (val.kind # "none" /\ FaceDetectionUnavailable) =>
      /\ val.reason \notin {"Failed to read for face detection",
                            "No face detected", "Multiple faces detected"}
      /\ \A i \in 1..Len(val.ran) : val.ran[i] = "faces" => val.ok

\* C32: validate never raises: whatever the argument and the state of the
\* file, ImageValidator.validate and VideoValidator.validate return either
\* (True, None) or (False, reason) with a non-empty reason.
C32_NeverThrows ==
    val.kind # "none" =>
      /\ val.raised = NoError
      /\ \/ val.ok /\ val.reason = ""
         \/ ~val.ok /\ val.reason # ""

\* os.path.getsize raised on a video that exists and has an accepted
\* format, and validate returned (False, "Validation error: ...").
C32_Witness ==
    /\ val.kind = "video" /\ val.fault = "OSError"
    /\ val.file.exists
    /\ ~val.ok /\ val.reason = "Validation error"
    /\ val.raised = NoError

\* C33 as stated: estimate_cost is the duration times 0.6 for the mode
\* wan-std and the duration times 0.9 for every other mode value.
C33_Original ==
    \A i \in 1..Len(est) :
      est[i].cost = est[i].video_duration *
                      (IF est[i].mode = "wan-std" THEN 6 ELSE 9)

\* C33 (amended): estimate_cost is the duration times 0.9 for the mode
\* wan-pro and the duration times 0.6 for wan-std, for a mode name that the
\* price list does not hold, and for no mode given (the default mode,
\* wan-std); for each mode it is monotonic nondecreasing in the duration.
C33_Amended ==
    /\ \A i \in 1..Len(est) :
         est[i].cost = est[i].video_duration *
                         (IF est[i].mode = "wan-pro" THEN 9 ELSE 6)
    /\ \A i, j \in 1..Len(est) :
         (est[i].mode = est[j].mode
            /\ est[i].video_duration <= est[j].video_duration)
           => est[i].cost <= est[j].cost

\* The cost of 3 seconds in a mode the price list does not hold was
\* estimated as 1.8 RMB, after that of 2 seconds in the same mode.
C33_Witness ==
    /\ Len(est) = 2
    /\ est[1].mode = "wan-max" /\ est[1].video_duration = 2
    /\ est[2].mode = "wan-max" /\ est[2].video_duration = 3
    /\ est[2].cost = 18

\* C34: polling is fixed-interval: wait_for_task sleeps exactly once between
\* two consecutive status queries (after n queries it has slept n - 1
\* times, and n times when it is about to query again), and every sleep
\* lasts the configured polling interval, whatever the poll count and the
\* status observed.
C34_FixedInterval ==
    /\ [](/\ pc \in {"callback", "status"} => sleeps = poll_count - 1
          /\ pc = "poll" => sleeps = poll_count)
    /\ [][sleeps' # sleeps =>
            /\ sleeps' = sleeps + 1
            /\ pc = "status" /\ pc' = "poll"
            /\ poll_count' = poll_count
            /\ now' = now + polling_interval]_vars

\* The third query was made after two sleeps of one second each.
C34_Witness ==
    /\ pc = "status" /\ polling_interval = 1
    /\ poll_count = 3 /\ sleeps = 2
    /\ now = start_time + 2 + query_time

\* download_result was called.
DownloadRequested == fetch # NoFetch

\* One of the two process methods is past the extraction of the result URL
\* from a snapshot that wait_for_task returned without one.
NoResultUrl ==
    /\ entry \in {"process", "Wan22Processor.process"}
    /\ wait_result.kind = "return"
    /\ wait_result.value.video_url = Absent
    /\ pc \notin {"extract", "workflow_extract"}

\* download_result is called only after wait_for_task returned a SUCCEEDED
\* snapshot with a result URL, and with exactly that URL; without a result
\* URL it is not called and the request has failed.
DownloadAfterSuccess ==
    /\ DownloadRequested =>
         /\ wait_result.kind = "return"
         /\ TaskStatusOf(wait_result.value) = SUCCEEDED
         /\ wait_result.value.video_url # Absent
         /\ fetch.video_url = wait_result.value.video_url
    /\ NoResultUrl => (pc = "raised" /\ ~DownloadRequested)

\* C35 as stated: in process (of the orchestrator and of the processor)
\* download_result is called only after a SUCCEEDED snapshot with a result
\* URL, with that URL; a SUCCEEDED snapshot without one fails the request
\* with a ProcessingError and no download.
C35_Original ==
    /\ DownloadAfterSuccess
    /\ NoResultUrl => raised.type = "ProcessingError"

\* C35 (amended): as stated, except that the failure for a missing result
\* URL is a ProcessingError in VideoFaceSwapper.process and an APIError in
\* Wan22Processor.process.
C35_Amended ==
    /\ DownloadAfterSuccess
    /\ NoResultUrl =>
         raised = IF entry = "process"
                  THEN Err("ProcessingError", <<"Result video URL not found">>)
                  ELSE Err("APIError",
                           <<"Result video URL not found in response">>)

\* VideoFaceSwapper.process asked for the download of the second result
\* address, which the SUCCEEDED snapshot held.
C35_Witness ==
    /\ entry = "process" /\ DownloadRequested
    /\ wait_result.value.video_url = "https://result/other.mp4"
    /\ fetch.video_url = "https://result/other.mp4"

\* A validation or an upload of the request failed.
EarlyStageFailed ==
    \E k \in 1..Len(log) :
      /\ log[k][1] \in {"validate_image", "validate_video", "upload_image",
                        "upload_video"}
      /\ ~log[k][2]

\* C36: an invocation of process issues create_task at most once, not at
\* all when a validation or an upload failed, and not again once the wait
\* for the job or the download has failed.
C36_OneJobPerRequest ==
    /\ [](entry = "process" =>
            /\ calls["create_task"] <= 1
            /\ EarlyStageFailed => calls["create_task"] = 0)
    /\ [][(entry = "process"
             /\ (wait_result.kind # "none" \/ pc \in {"raised", "done"}))
            => calls'["create_task"] = calls["create_task"]]_vars

\* The wait for the one job of the request timed out and process failed.
C36_Witness ==
    /\ entry = "process" /\ pc = "raised"
    /\ wait_result.kind = "raise" /\ wait_result.error = TaskTimeoutError
    /\ calls["create_task"] = 1

\* C37: whenever process returns an outcome with success = true, its
\* task_id is the id that create_task returned, the job was observed
\* SUCCEEDED, download_result reported success, output_path is the path
\* that was downloaded to, and processing_time is set (the time since
\* process began); success is true in no other state of process.
C37_SuccessComplete ==
    (entry = "process" /\ result.success) =>
      /\ pc = "done"
      /\ \E k \in 1..Len(log) : log[k] = <<"create_task", TRUE>>
      /\ result.task_id = TaskId(batch.i)
      /\ wait_result.kind = "return"
      /\ TaskStatusOf(wait_result.value) = SUCCEEDED
      /\ TaskStatusOf(delivered) = SUCCEEDED
      /\ log[Len(log)] = <<"download_result", TRUE>>
      /\ DownloadRequested
      /\ result.output_path = fetch.save_path
      /\ result.processing_time >= 0
      /\ result.processing_time = now - result.started

\* process returned success for a job that took two queries; the time
\* spent is in the outcome.
C37_Witness ==
    /\ entry = "process" /\ pc = "done" /\ result.success
    /\ poll_count = 2 /\ sleeps = 1
    /\ result.processing_time = now /\ now >= polling_interval
    /\ result.output_path = "output/result.mp4"

\* ------------------------------------------------------------------ C38
\* A polling round's callback step: the callback was invoked and the loop
\* goes on to examine the status, nothing else of the run having changed.
CallbackStepHarmless ==
    pc = "callback" =>
        /\ pc' = "status"
        /\ callbacks' = callbacks + 1
        /\ UNCHANGED <<configVars, entry, skip_validation, progress_callback,
                       timeout, now, start_time, poll_count, task_info,
                       delivered, sleeps, query_time, wait_result, calls,
                       result, raised, retryVars, otherVars, toolVars, est,
                       fetch>>

\* C38: an exception raised by the caller's progress callback never aborts or
\* alters processing: no outcome of wait_for_task or process is the callback's
\* exception, and the step that invokes the callback leads to the status
\* examination with the queries, sleeps, stage calls and results untouched,
\* whatever the callback does.
C38_CallbackHarmless ==
    /\ [](raised # CallbackError /\ raised # UnexpectedError("CallbackError"))
    /\ [][CallbackStepHarmless]_vars

\* process succeeded although its callback raised on the way.
C38_Witness ==
    /\ entry = "process"
    /\ pc = "done"
    /\ result.success
    /\ user_callback.behaviour = "raises"
    /\ user_callback.dropped
    /\ callbacks > 0

\* ------------------------------------------------------------------ C39
\* The events of the call so far: k failed attempts, each followed by its
\* sleep, and then the one successful attempt.
SucceededAfter(k) ==
    /\ Len(trace) = 2 * k + 1
    /\ \A i \in 1..k : /\ trace[2 * i - 1].ev = "attempt_failed"
                       /\ trace[2 * i].ev = "sleep"
    /\ trace[2 * k + 1].ev = "attempt_ok"

\* C39: retry_with_backoff returns at its first successful attempt and then
\* makes no further attempt and no further sleep; the sleeps it has made are
\* as many as the failed attempts before the success, one after each.
C39_FirstSuccess ==
    /\ [](retry_result.kind = "return" =>
            /\ pc = "returned"
            /\ \E k \in 0..(max_retries - 1) : SucceededAfter(k))
    /\ [][retry_result.kind = "return" => UNCHANGED <<trace, now, attempt>>]_vars

\* A success at the last of three attempts, after two failures and two sleeps.
C39_Witness ==
    /\ retry_result.kind = "return"
    /\ max_retries = 3
    /\ SucceededAfter(2)

\* ------------------------------------------------------------------ C40
\* C40 as stated: whatever max_retries is, a finished call has attempted the
\* operation at least once, and what it raised is an exception that an
\* attempt of the operation raised.
C40_AttemptsOnce ==
    retry_result.kind \in {"return", "raise"} =>
        /\ \E i \in 1..Len(trace) : trace[i].ev \in {"attempt_ok", "attempt_failed"}
        /\ retry_result.kind = "raise" =>
              \E i \in 1..Len(trace) :
                 /\ trace[i].ev = "attempt_failed"
                 /\ retry_result.error = Err(trace[i].exc, <<>>)

====
